---- MODULE Spec2Model ----
(***************************************************************************)
(* Model of the broadcast subsystem: BroadcastManager.broadcast_message    *)
(* (broadcast.py), the repository calls it makes (database.py) and the     *)
(* helpers batch_list, create_progress_bar and format_duration (utils.py). *)
(*                                                                         *)
(* The job is one asyncio task.  Every action below is one segment of the  *)
(* coroutine: an awaited call together with the synchronous code that      *)
(* follows it up to the next await.                                        *)
(***************************************************************************)
EXTENDS Integers, Sequences, FiniteSets, TLC

VARIABLES
    repo_users,     \* user ids stored in the users collection, in cursor order
    batch_size,     \* the configured BROADCAST_BATCH_SIZE of this run
    message,        \* which content field of the broadcast Message is set
    progress_msg,   \* TRUE iff a progress Message was passed to the job
    pc,             \* position of the coroutine
    user_ids,       \* snapshot returned by get_all_user_ids
    broadcast_id,   \* handle returned by create_broadcast ("" on failure)
    stats,          \* the stats dict of the job
    batch_num,      \* enumerate() counter of the outer loop (from 1)
    idx,            \* position of user_id in the current batch (from 1)
    flood_value,    \* e.value of the FloodWait being handled, 0 if none
    record,         \* the document of this job in the broadcasts collection
    status_text,    \* current content of the progress Message
    clock,          \* logical time, advanced by asyncio.sleep only
    start_time,     \* clock value read at line 44
    result,         \* the dict returned by broadcast_message
    attempts,       \* history: every transport send, in call order
    ledger,         \* history: outcomes the transport produced, by attempt
    sleeps,         \* history: asyncio.sleep calls taken
    db_failures,    \* history: repository calls that raised inside database.py
    edit_log,       \* history: edit_text calls made on the status message
    admin_states,   \* admin_handlers.admin_states, an entry per admin
    cb,             \* position of each user's broadcast_callback coroutine
    job_starts,     \* history: calls of broadcast_message by broadcast_callback
    rendering,      \* a call of utils.create_progress_bar and what it returned
    jobs,           \* the calls of broadcast_message that run side by side
    broadcasts      \* the broadcasts collection those calls write to

vars == << repo_users, batch_size, message, progress_msg, pc, user_ids,
           broadcast_id, stats, batch_num, idx, flood_value, record,
           status_text, clock, start_time, result, attempts, ledger,
           sleeps, db_failures, edit_log, admin_states, cb, job_starts,
           rendering, jobs, broadcasts >>

pair_vars == << jobs, broadcasts >>

handler_vars == << admin_states, cb, job_starts >>

inputs == << repo_users, batch_size, message, progress_msg >>

(***************************************************************************)
(* Bounds of the model                                                     *)
(***************************************************************************)
MaxUsers == 5
MaxBatchSize == 2
\* FloodWaits the transport raises on first attempts during one run.
MaxFloodWaits == 1
\* Repository calls that raise (and are caught in database.py) during one run.
MaxDbFailures == 1
\* Recipients of a broadcast started through the handlers.
MaxHandlerUsers == 6
\* Confirm presses that get as far as starting a job.
MaxJobStarts == 2
\* Recipients in the model of the sessions.
MaxSessionUsers == 1
\* Users in the collection at the start of a run during which users join
\* and leave; one more user id exists than that.
MaxChurnUsers == 1
\* Recipients of the long runs that reach the tenth batch.
MaxCadenceUsers == 10
\* Users in the collection before two jobs run side by side.
MaxPairUsers == 1
\* Recipients of the runs checked for termination.
MaxFairUsers == 5
\* Largest total and largest length create_progress_bar is called with.
MaxBarTotal == 50
MaxBarLength == 10

\* config.py:64
BROADCAST_DELAY == 1
\* broadcast.py:118  (batch_num % 5 == 0)
PROGRESS_EVERY == 5
\* utils.py:208  (length: int = 10)
BAR_LENGTH == 10

\* Values of BROADCAST_BATCH_SIZE the model runs with.  config.py sets 50;
\* the model scales it down so that several batches arise within MaxUsers.
BatchSizes == 1 .. MaxBatchSize

\* e.value of a FloodWait: the wait the platform demands, in seconds.
FloodValues == {5}

\* The content field of the Message that is set.  "other" is a Message with
\* none of text/photo/video/document/animation (a sticker, a voice note...).
MessageKinds == {"text", "photo", "video", "document", "animation", "other"}

\* What a transport call does: returns, or raises UserIsBlocked /
\* InputUserDeactivated ("Unreachable"), FloodWait, or any other Exception.
Outcomes == {"ok", "Unreachable", "FloodWait", "Error"}

\* config.ADMIN_IDS and the other users who can reach the bot.
ADMIN_IDS == {"admin1", "admin2"}
Users == ADMIN_IDS \cup {"user"}

\* The content message each admin sends after /broadcast: different
\* admins send different payloads.
ContentOf(a) == IF a = "admin1" THEN "text" ELSE "photo"

\* The outcomes the transport may still produce for a first attempt once
\* n rate-limit waits have been taken in the run.
FirstOutcomes(n) ==
    IF n < MaxFloodWaits THEN Outcomes ELSE Outcomes \ {"FloodWait"}

\* Whether a call on the document store may succeed / fail once n calls
\* have failed in the run.
DbOutcomes(n) == IF n < MaxDbFailures THEN BOOLEAN ELSE {TRUE}

Min(a, b) == IF a < b THEN a ELSE b

(***************************************************************************)
(* Pure helpers of utils.py                                                *)
(***************************************************************************)

\* Python's range(start, stop, step) for step > 0, as a sequence.
RECURSIVE range(_, _, _)
range(start, stop, step) ==
    IF start >= stop THEN << >>
    ELSE << start >> \o range(start + step, stop, step)

\* Faulty variant of Slice: the end index taken as inclusive.
SliceInclusiveEnd(items, i, j) == SubSeq(items, i + 1, Min(j + 1, Len(items)))

\* Python's items[i:j] for 0 <= i <= j (0-based, end exclusive, clamped).
Slice(items, i, j) == SubSeq(items, i + 1, Min(j, Len(items)))

\* utils.batch_list: the list of the batches the generator yields.
batch_list(items, size) ==
    LET starts == range(0, Len(items), size)
    IN  [k \in 1 .. Len(starts) |-> Slice(items, starts[k], starts[k] + size)]

(***************************************************************************)
(* Python floats (IEEE 754 binary64), as far as lines 224-225 of utils.py  *)
(* use them: the true division of two ints, the product of a float and an  *)
(* int, and int() of a float.  A positive float is [m, e] with the value   *)
(* m * 2^e, where the significand m has MANT_BITS bits and is written as a *)
(* sequence of limbs of LIMB_BITS bits, the most significant first and not *)
(* zero.                                                                   *)
(***************************************************************************)

\* Bits of the significand of a binary64 float.
MANT_BITS == 53

\* Bits of a limb: small enough for limb * int to stay in range.
LIMB_BITS == 15

\* The float 0.0.
FloatZero == [m |-> << >>, e |-> 0]

\* The number of bits of a natural below 2^30.
BitLen(x) == CHOOSE k \in 0 .. 30 : x < 2 ^ k /\ (k = 0 \/ 2 ^ (k - 1) <= x)

\* The number of bits of a number written in limbs.
LimbsBitLen(N) ==
    IF N = << >> THEN 0 ELSE LIMB_BITS * (Len(N) - 1) + BitLen(N[1])

\* Without a leading zero limb.
LimbsStrip(N) == IF N # << >> /\ N[1] = 0 THEN Tail(N) ELSE N

\* N div 2^d for 0 <= d < LIMB_BITS.
LimbsShiftRight(N, d) ==
    LimbsStrip([i \in 1 .. Len(N) |->
                  (N[i] \div 2 ^ d)
                     + (IF i > 1
                        THEN (N[i - 1] % 2 ^ d) * 2 ^ (LIMB_BITS - d)
                        ELSE 0)])

\* N + 1.
RECURSIVE LimbsInc(_)
LimbsInc(N) ==
    IF N = << >> THEN << 1 >>
    ELSE IF N[Len(N)] + 1 < 2 ^ LIMB_BITS
         THEN [N EXCEPT ![Len(N)] = @ + 1]
         ELSE LimbsInc(SubSeq(N, 1, Len(N) - 1)) \o << 0 >>

\* N * n + carry for a natural n below 2^13.
RECURSIVE LimbsTimes(_, _, _)
LimbsTimes(N, n, carry) ==
    IF N = << >> THEN (IF carry = 0 THEN << >> ELSE << carry >>)
    ELSE LET v == N[Len(N)] * n + carry
         IN  LimbsTimes(SubSeq(N, 1, Len(N) - 1), n, v \div 2 ^ LIMB_BITS)
                \o << v % 2 ^ LIMB_BITS >>

\* Round to nearest, ties to even: the exact result is N * 2^e, plus
\* something below the last bit when sticky; N has at least MANT_BITS and
\* fewer than MANT_BITS + LIMB_BITS bits.
FloatRound(N, e, sticky) ==
    LET d       == LimbsBitLen(N) - MANT_BITS
        kept    == LimbsShiftRight(N, d)
        dropped == N[Len(N)] % 2 ^ d
        guard   == d > 0 /\ dropped >= 2 ^ (d - 1)
        below   == sticky \/ (d > 0 /\ dropped % 2 ^ (d - 1) # 0)
        odd     == kept[Len(kept)] % 2 = 1
        m       == IF guard /\ (below \/ odd) THEN LimbsInc(kept) ELSE kept
    IN  IF LimbsBitLen(m) > MANT_BITS
        THEN [m |-> LimbsShiftRight(m, 1), e |-> e + d + 1]
        ELSE [m |-> m, e |-> e + d]

\* The least k with c * 2^k >= t, and c * 2^k.
RECURSIVE Normalize(_, _, _)
Normalize(c, t, k) ==
    IF c >= t THEN [c |-> c, k |-> k] ELSE Normalize(2 * c, t, k + 1)

\* current / total for ints 0 <= c <= t, 0 < t < 2^15: the float nearest
\* to the quotient.  The quotient of c * 2^k in [t, 2t) by t is divided
\* out to MANT_BITS + 1 bits, limb by limb.
float_div(c, t) ==
    IF c = 0 THEN FloatZero
    ELSE LET n    == Normalize(c, t, 0)
             top  == MANT_BITS - 3 * LIMB_BITS
             r0   == n.c - t
             d1   == (r0 * 2 ^ top) \div t
             r1   == (r0 * 2 ^ top) % t
             d2   == (r1 * 2 ^ LIMB_BITS) \div t
             r2   == (r1 * 2 ^ LIMB_BITS) % t
             d3   == (r2 * 2 ^ LIMB_BITS) \div t
             r3   == (r2 * 2 ^ LIMB_BITS) % t
             d4   == (r3 * 2 ^ LIMB_BITS) \div t
             r4   == (r3 * 2 ^ LIMB_BITS) % t
         IN  FloatRound(<< 2 ^ top + d1, d2, d3, d4 >>,
                        0 - MANT_BITS - n.k, r4 # 0)

\* x * n for a float x >= 0 and an int 0 < n < 2^13: the float nearest to
\* the product.
float_mul(x, n) ==
    IF x.m = << >> THEN FloatZero
    ELSE FloatRound(LimbsTimes(x.m, n, 0), x.e, FALSE)

\* int(x) for a float 0 <= x < 2^30: the integer part.
float_int(x) ==
    IF x.m = << >> \/ MANT_BITS + x.e <= 0 THEN 0
    ELSE LET s     == 0 - x.e
             whole == LimbsShiftRight(
                         SubSeq(x.m, 1, Len(x.m) - s \div LIMB_BITS),
                         s % LIMB_BITS)
         IN  CASE Len(whole) = 0 -> 0
               [] Len(whole) = 1 -> whole[1]
               [] OTHER          -> whole[1] * 2 ^ LIMB_BITS + whole[2]

\* utils.create_progress_bar for 0 <= current <= total: the numbers of
\* filled and empty cells and the percentage shown.
create_progress_bar(current, total, length) ==
    IF total = 0
    THEN [filled |-> 0, empty |-> length, percent |-> 0]
    ELSE LET ratio  == float_div(current, total)
             filled == float_int(float_mul(ratio, length))
         IN  [filled  |-> filled,
              empty   |-> length - filled,
              percent |-> float_int(float_mul(ratio, 100))]

\* utils.format_duration
format_duration(seconds) ==
    IF seconds < 60 THEN << seconds, "s" >>
    ELSE IF seconds < 3600
         THEN << seconds \div 60, "m", seconds % 60, "s" >>
         ELSE << seconds \div 3600, "h", (seconds % 3600) \div 60, "m" >>

(***************************************************************************)
(* The job's view of its inputs                                            *)
(***************************************************************************)

\* The content fields broadcast_message tests, in the order of its if/elif.
Recognized(m) == m \in {"text", "photo", "video", "document", "animation"}

\* The client method the first attempt calls for a Message (lines 67-92).
SendMethod(m) ==
    CASE m = "text"      -> "send_message"
      [] m = "photo"     -> "send_photo"
      [] m = "video"     -> "send_video"
      [] m = "document"  -> "send_document"
      [] m = "animation" -> "send_animation"

\* What the first attempt passes: message.text, or the media file_id with
\* message.caption.
SendContent(m) == IF m = "text" THEN "message.text" ELSE "file_id+caption"

\* What the retry passes to send_message: message.text or "Message".
RetryContent(m) == IF m = "text" THEN "message.text" ELSE "'Message'"

\* The batches of the run and the loop variables of lines 62 and 64.
batches == batch_list(user_ids, batch_size)
batch   == batches[batch_num]
\* Faulty variant of user_id: the batch is walked from its end.
user_id_reversed == batch[Len(batch) + 1 - idx]
user_id == batch[idx]

(***************************************************************************)
(* Exception handling.  A clause names where control goes when a call      *)
(* returns ("else": no exception) or raises: the except clause that        *)
(* catches the exception, or "uncaught" when none does.                    *)
(***************************************************************************)

\* Faulty variant of Bump: the counter is incremented twice.
BumpTwice(s, field) == [s EXCEPT ![field] = @ + 2]

\* stats[field] += 1.
Bump(s, field) == [s EXCEPT ![field] = @ + 1]

\* Faulty variant of ExceptClause: no `except Exception` clause.
ExceptClauseNoGeneric(outcome) ==
    CASE outcome = "ok"          -> "else"
      [] outcome = "Unreachable" -> "blocked"
      [] outcome = "FloodWait"   -> "flood"
      [] outcome = "Error"       -> "uncaught"

\* Faulty variant of ExceptClause: no clause for UserIsBlocked / InputUserDeactivated,
\* which then reach `except Exception`.
ExceptClauseNoBlocked(outcome) ==
    CASE outcome = "ok"          -> "else"
      [] outcome = "Unreachable" -> "generic"
      [] outcome = "FloodWait"   -> "flood"
      [] outcome = "Error"       -> "generic"

\* Lines 96-109: the except clauses around the first attempt.
ExceptClause(outcome) ==
    CASE outcome = "ok"          -> "else"
      [] outcome = "Unreachable" -> "blocked"   \* UserIsBlocked, InputUserDeactivated
      [] outcome = "FloodWait"   -> "flood"     \* FloodWait
      [] outcome = "Error"       -> "generic"   \* Exception

\* Faulty variant of ClauseCounter: the generic clause counts a blocked
\* recipient.
ClauseCounterGenericAsBlocked(clause) ==
    CASE clause = "else"    -> "success"
      [] clause = "blocked" -> "blocked"
      [] clause = "generic" -> "blocked"

\* Faulty variant of ClauseCounter: the blocked clause counts a failure.
ClauseCounterBlockedAsFailed(clause) ==
    CASE clause = "else"    -> "success"
      [] clause = "blocked" -> "failed"
      [] clause = "generic" -> "failed"

\* Lines 94, 97, 109: the counter incremented in each clause.
ClauseCounter(clause) ==
    CASE clause = "else"    -> "success"
      [] clause = "blocked" -> "blocked"
      [] clause = "generic" -> "failed"

\* Faulty variant of FallThroughStats: the increment placed inside each branch of
\* the if/elif chain, so a Message matching no branch is not counted.
FallThroughStatsUncounted == stats

\* Line 94 reached without any client call (no branch of the if/elif chain
\* taken): the increment stands outside the chain and still runs.
FallThroughStats == Bump(stats, "success")

\* Faulty variant of FloodStats: the FloodWait clause counts a failure before the
\* retry counts the recipient again.
FloodStatsCountsFailed == Bump(stats, "failed")

\* Lines 98-100: the FloodWait clause counts nothing before the retry.
FloodStats == stats

\* Faulty variant of RetryClause: no handler around the retry, so that its
\* exception leaves broadcast_message.
RetryClauseUncaught(outcome) == IF outcome = "ok" THEN "else" ELSE "uncaught"

\* Lines 102-106: the retry sits in its own try with a bare except, which
\* catches every exception.
RetryClause(outcome) == IF outcome = "ok" THEN "else" ELSE "bare"

\* Faulty variant of RetryCounter: the retry's success counted as a failure.
RetryCounterAlwaysFailed(clause) == "failed"

\* Lines 104, 106: the counter incremented after the retry.
\* Faulty variant of RetryCounter: a failed retry counted as blocked.
RetryCounterBlocked(clause) == IF clause = "else" THEN "success" ELSE "blocked"

RetryCounter(clause) == IF clause = "else" THEN "success" ELSE "failed"

\* Faulty variant of EditClause: the progress edit outside any try.
EditClauseUncaught(edit_ok) == IF edit_ok THEN "else" ELSE "uncaught"

\* Lines 119-138: the progress edit sits in a try with a bare except.
EditClause(edit_ok) == IF edit_ok THEN "else" ELSE "bare"

\* Faulty variant of RepoClause: complete_broadcast without its try / except.
RepoClauseCompleteUncaught(method, db_ok) ==
    IF db_ok THEN "else"
    ELSE IF method = "complete_broadcast" THEN "uncaught" ELSE "caught"

\* Faulty variant of RepoClause: create_broadcast lets its exception out.
RepoClauseCreateUncaught(method, db_ok) ==
    IF db_ok THEN "else"
    ELSE IF method = "create_broadcast" THEN "uncaught" ELSE "caught"

\* database.py: get_all_user_ids, create_broadcast, update_broadcast_stats
\* and complete_broadcast each wrap their body in try / except Exception,
\* log the error and return a default.
RepoClause(method, db_ok) == IF db_ok THEN "else" ELSE "caught"

\* Faulty variant of InitialStats: total taken from the size of the users
\* collection instead of the snapshot.
InitialStatsFromRepo ==
    [total |-> Len(repo_users), success |-> 0, failed |-> 0, blocked |-> 0]

\* Lines 54-59: the stats dict at its creation.
InitialStats ==
    [total |-> Len(user_ids), success |-> 0, failed |-> 0, blocked |-> 0]

\* len([u for u in batch if u]): the truthy (non-zero) ids of the batch.
TruthyCount(b) == Len(SelectSeq(b, LAMBDA u : u # 0))

NoRecord == [exists |-> FALSE, total_users |-> 0, success |-> 0,
             failed |-> 0, blocked |-> 0, status |-> "none"]

ZeroCounts == [o \in Outcomes |-> 0]

\* admin_states.get(user_id, {}) of an admin without an entry.
NoSession == [state |-> "none", message |-> "none"]

\* A user with no broadcast_callback coroutine in flight.
NoCallback == [at |-> "none", broadcast_msg |-> "none"]

\* The two calls of broadcast_message that are followed side by side; the
\* k-th document inserted into the broadcasts collection has the id k.
JobIds == {1, 2}

\* A call of broadcast_message that has not been made.  broadcast_id 0
\* stands for the "" a failed create_broadcast returns; issued sums the
\* increments update_one was given for this call, handled counts the
\* recipients this call has classified.
NoJob ==
    [pc |-> "idle", user_ids |-> << >>, broadcast_id |-> 0,
     stats |-> [total |-> 0, success |-> 0, failed |-> 0, blocked |-> 0],
     batch_num |-> 0, idx |-> 0, floods |-> 0,
     issued |-> [success |-> 0, failed |-> 0, blocked |-> 0],
     handled |-> 0,
     result |-> [total |-> 0, success |-> 0, failed |-> 0, blocked |-> 0]]

\* No call of create_progress_bar is being looked at.
NoRendering ==
    [called |-> FALSE, current |-> 0, total |-> 0, length |-> 0,
     bar |-> [filled |-> 0, empty |-> 0, percent |-> 0]]

(***************************************************************************)
(* Initial state: broadcast_message has been called and has read           *)
(* start_time; nothing has been awaited yet.                               *)
(***************************************************************************)
Init ==
    /\ \E n \in 0 .. MaxUsers : repo_users = [i \in 1 .. n |-> i]
    /\ batch_size \in BatchSizes
    /\ message \in MessageKinds
    /\ progress_msg \in BOOLEAN
    /\ pc = "get_users"
    /\ user_ids = << >>
    /\ broadcast_id = ""
    /\ stats = [total |-> 0, success |-> 0, failed |-> 0, blocked |-> 0]
    /\ batch_num = 0
    /\ idx = 0
    /\ flood_value = 0
    /\ record = NoRecord
    /\ status_text = [kind |-> "broadcast_started"]
    /\ clock = 0
    /\ start_time = 0
    /\ result = "none"
    /\ attempts = << >>
    /\ ledger = [first |-> ZeroCounts, retry |-> ZeroCounts, flooded |-> {},
                 demanded |-> 0]
    /\ sleeps = [flood |-> 0, delay |-> 0, flood_total |-> 0]
    /\ db_failures = 0
    /\ edit_log = << >>
    /\ admin_states = [a \in ADMIN_IDS |-> NoSession]
    /\ cb = [u \in Users |-> NoCallback]
    /\ job_starts = << >>
    /\ rendering = NoRendering
    /\ jobs = [j \in JobIds |-> NoJob]
    /\ broadcasts = [i \in JobIds |-> NoRecord]

(***************************************************************************)
(* Loop control (synchronous code between awaits)                          *)
(***************************************************************************)

\* for user_id in batch: the next user, or the code after the inner loop.
NextUser ==
    IF idx < Len(batch)
    THEN /\ idx' = idx + 1
         /\ pc' = "send"
         /\ UNCHANGED batch_num
    ELSE /\ pc' = "update_db"
         /\ UNCHANGED << idx, batch_num >>

\* for batch_num, batch in enumerate(batch_list(...), 1): the next batch,
\* or the code after the outer loop.  bs is the list of batches.
NextBatch(bs) ==
    IF batch_num < Len(bs)
    THEN /\ batch_num' = batch_num + 1
         /\ idx' = 1
         /\ pc' = "send"
    ELSE /\ pc' = "complete"
         /\ UNCHANGED << batch_num, idx >>

\* An exception no clause catches leaves broadcast_message.
Raise ==
    /\ pc' = "raised"
    /\ UNCHANGED << batch_num, idx >>

(***************************************************************************)
(* The segments of broadcast_message                                       *)
(***************************************************************************)

\* Lines 47-48 with Database.get_all_user_ids: the snapshot of the users
\* collection, or [] when the query raises.
GetAllUserIds ==
    /\ pc = "get_users"
    /\ \E db_ok \in DbOutcomes(db_failures) :
          /\ db_failures' = IF db_ok THEN db_failures ELSE db_failures + 1
          /\ LET clause == RepoClause("get_all_user_ids", db_ok)
             IN  CASE clause = "else"   -> user_ids' = repo_users /\ pc' = "create"
                   [] clause = "caught" -> user_ids' = << >> /\ pc' = "create"
                   [] OTHER             -> UNCHANGED user_ids /\ pc' = "raised"
    /\ UNCHANGED << inputs, handler_vars, rendering, pair_vars,
                    broadcast_id, stats, batch_num, idx, flood_value,
                    record, status_text, clock, start_time, result, attempts,
                    ledger, sleeps, edit_log >>

\* Lines 51-62 with Database.create_broadcast: the record is inserted and
\* its id returned, or "" when the insert raises; then the stats dict is
\* built and the outer loop is entered.
CreateBroadcast ==
    /\ pc = "create"
    /\ \E db_ok \in DbOutcomes(db_failures) :
          /\ db_failures' = IF db_ok THEN db_failures ELSE db_failures + 1
          /\ LET clause == RepoClause("create_broadcast", db_ok)
             IN  CASE clause = "else" ->
                        /\ broadcast_id' = "oid"
                        /\ record' = [exists      |-> TRUE,
                                      total_users |-> Len(user_ids),
                                      success     |-> 0,
                                      failed      |-> 0,
                                      blocked     |-> 0,
                                      status      |-> "in_progress"]
                        /\ stats' = InitialStats
                        /\ NextBatch(batches)
                   [] clause = "caught" ->
                        /\ broadcast_id' = ""
                        /\ UNCHANGED record
                        /\ stats' = InitialStats
                        /\ NextBatch(batches)
                   [] OTHER ->
                        /\ UNCHANGED << broadcast_id, record, stats >>
                        /\ Raise
    /\ UNCHANGED << inputs, handler_vars, rendering, pair_vars,
                    user_ids, flood_value, status_text, clock,
                    start_time, result, attempts, ledger, sleeps, edit_log >>

\* One entry of the history of transport calls.
Attempt(kind, method, content) ==
    [user |-> user_id, kind |-> kind, method |-> method, content |-> content]

\* Lines 65-109 up to the next await: the first delivery attempt for
\* user_id and the classification of its outcome.  A Message with no
\* recognized content field falls through the if/elif chain: no client call
\* is made and line 94 counts a success.
Send ==
    /\ pc = "send"
    /\ IF Recognized(message)
       THEN \E outcome \in FirstOutcomes(sleeps.flood) :
              LET clause == ExceptClause(outcome)
              IN  /\ attempts' = Append(attempts,
                        Attempt("first", SendMethod(message),
                                SendContent(message)))
                  /\ CASE clause = "flood" ->
                            /\ \E d \in FloodValues :
                                  /\ flood_value' = d
                                  /\ ledger' = [ledger EXCEPT
                                        !.first[outcome] = @ + 1,
                                        !.flooded = @ \cup {user_id},
                                        !.demanded = @ + d]
                            /\ stats' = FloodStats
                            /\ pc' = "flood_sleep"
                            /\ UNCHANGED << idx, batch_num >>
                       [] clause \in {"else", "blocked", "generic"} ->
                            /\ ledger' = [ledger EXCEPT
                                  !.first[outcome] = @ + 1]
                            /\ stats' = Bump(stats, ClauseCounter(clause))
                            /\ NextUser
                            /\ UNCHANGED flood_value
                       [] OTHER ->
                            /\ ledger' = [ledger EXCEPT
                                  !.first[outcome] = @ + 1]
                            /\ Raise
                            /\ UNCHANGED << stats, flood_value >>
       ELSE /\ stats' = FallThroughStats
            /\ NextUser
            /\ UNCHANGED << attempts, ledger, flood_value >>
    /\ UNCHANGED << inputs, handler_vars, rendering, pair_vars,
                    db_failures, user_ids, broadcast_id, record,
                    status_text, clock, start_time, result, sleeps, edit_log >>

\* Faulty variant of FloodSleepDuration: the inter-batch delay is slept
\* instead of the demanded wait.
FloodSleepDurationBatchDelay == BROADCAST_DELAY

\* Faulty variant of FloodSleepDuration: the wait is cut short.
FloodSleepDurationHalved == flood_value \div 2

\* Line 100: the argument of asyncio.sleep is e.value, the wait the
\* FloodWait demanded.
FloodSleepDuration == flood_value

\* Line 100: await asyncio.sleep(e.value).
FloodSleep ==
    /\ pc = "flood_sleep"
    /\ clock' = clock + FloodSleepDuration
    /\ sleeps' = [sleeps EXCEPT !.flood = @ + 1,
                                !.flood_total = @ + FloodSleepDuration]
    /\ pc' = "retry"
    /\ UNCHANGED << inputs, handler_vars, rendering, pair_vars,
                    db_failures, user_ids, broadcast_id, stats,
                    batch_num, idx, flood_value, record, status_text,
                    start_time, result, attempts, ledger, edit_log >>

\* Lines 102-106: the single retry, always by send_message.
Retry ==
    /\ pc = "retry"
    /\ \E outcome \in Outcomes :
          LET clause == RetryClause(outcome)
          IN  /\ attempts' = Append(attempts,
                    Attempt("retry", "send_message", RetryContent(message)))
              /\ ledger' = [ledger EXCEPT !.retry[outcome] = @ + 1]
              /\ IF clause \in {"else", "bare"}
                 THEN /\ stats' = Bump(stats, RetryCounter(clause))
                      /\ NextUser
                 ELSE /\ Raise
                      /\ UNCHANGED stats
    /\ flood_value' = 0
    /\ UNCHANGED << inputs, handler_vars, rendering, pair_vars,
                    db_failures, user_ids, broadcast_id, record,
                    status_text, clock, start_time, result, sleeps, edit_log >>

\* The increments lines 112-115 pass to update_broadcast_stats for the
\* batch b: success = len([u for u in batch if u]); failed and blocked keep
\* their default 0.
BatchDelta(b) == [success |-> TruthyCount(b), failed |-> 0, blocked |-> 0]

\* Line 118: whether the progress message is edited after this batch.
\* Faulty variant of ProgressDue: only the fifth batch is due.
ProgressDueFifthOnly == progress_msg /\ batch_num = PROGRESS_EVERY

\* Line 118: if progress_msg and batch_num % 5 == 0.
ProgressDue == progress_msg /\ batch_num % PROGRESS_EVERY = 0

\* broadcast_message has been called with one of the given payloads, for a
\* users collection of up to n users and one of the given batch sizes, and
\* has read start_time; nothing has been awaited yet.
InitJob(n, sizes, kinds) ==
    /\ \E k \in 0 .. n : repo_users = [i \in 1 .. k |-> i]
    /\ batch_size \in sizes
    /\ message \in kinds
    /\ progress_msg \in BOOLEAN
    /\ pc = "get_users"
    /\ user_ids = << >>
    /\ broadcast_id = ""
    /\ stats = [total |-> 0, success |-> 0, failed |-> 0, blocked |-> 0]
    /\ batch_num = 0
    /\ idx = 0
    /\ flood_value = 0
    /\ record = NoRecord
    /\ status_text = [kind |-> "broadcast_started"]
    /\ clock = 0
    /\ start_time = 0
    /\ result = "none"
    /\ attempts = << >>
    /\ ledger = [first |-> ZeroCounts, retry |-> ZeroCounts, flooded |-> {},
                 demanded |-> 0]
    /\ sleeps = [flood |-> 0, delay |-> 0, flood_total |-> 0]
    /\ db_failures = 0
    /\ edit_log = << >>
    /\ admin_states = [a \in ADMIN_IDS |-> NoSession]
    /\ cb = [u \in Users |-> NoCallback]
    /\ job_starts = << >>
    /\ rendering = NoRendering
    /\ jobs = [j \in JobIds |-> NoJob]
    /\ broadcasts = [i \in JobIds |-> NoRecord]

\* Lines 112-118 with Database.update_broadcast_stats: the $inc on the
\* record.  ObjectId("") raises for the handle of a failed create, and the
\* update itself may raise; both happen inside the method's try.
UpdateBroadcastStats ==
    /\ pc = "update_db"
    /\ \E db_ok \in (IF broadcast_id = "" THEN {TRUE}
                     ELSE DbOutcomes(db_failures)) :
          /\ db_failures' = IF db_ok THEN db_failures ELSE db_failures + 1
          /\ LET clause == RepoClause("update_broadcast_stats",
                                      db_ok /\ broadcast_id # "")
             IN  CASE clause = "else" ->
                        /\ record' = [record EXCEPT
                              !.success = @ + BatchDelta(batch).success,
                              !.failed  = @ + BatchDelta(batch).failed,
                              !.blocked = @ + BatchDelta(batch).blocked]
                        /\ pc' = IF ProgressDue THEN "progress" ELSE "delay"
                   [] clause = "caught" ->
                        /\ UNCHANGED record
                        /\ pc' = IF ProgressDue THEN "progress" ELSE "delay"
                   [] OTHER ->
                        /\ UNCHANGED record
                        /\ pc' = "raised"
    /\ UNCHANGED << inputs, handler_vars, rendering, pair_vars,
                    user_ids, broadcast_id, stats, batch_num, idx,
                    flood_value, status_text, clock, start_time, result,
                    attempts, ledger, sleeps, edit_log >>

\* Faulty variant of progress_text: remaining computed from success alone.
progress_text_success_only ==
    LET completed == stats.success + stats.failed + stats.blocked
    IN  [kind      |-> "broadcast_progress",
         success   |-> stats.success,
         failed    |-> stats.failed,
         blocked   |-> stats.blocked,
         remaining |-> stats.total - stats.success,
         bar       |-> create_progress_bar(completed, stats.total, BAR_LENGTH)]

\* Lines 122-134: the text rendered for the progress message.
progress_text ==
    LET completed == stats.success + stats.failed + stats.blocked
    IN  [kind      |-> "broadcast_progress",
         success   |-> stats.success,
         failed    |-> stats.failed,
         blocked   |-> stats.blocked,
         remaining |-> stats.total - stats.success - stats.failed
                          - stats.blocked,
         bar       |-> create_progress_bar(completed, stats.total, BAR_LENGTH)]

\* Lines 119-138: progress_msg.edit_text(progress_text) inside try/except:
\* a failed edit is discarded.
EditProgress ==
    /\ pc = "progress"
    /\ \E edit_ok \in BOOLEAN :
          LET clause == EditClause(edit_ok)
          IN  /\ edit_log' = Append(edit_log,
                                    [batch |-> batch_num, ok |-> edit_ok,
                                     text |-> "broadcast_progress"])
              /\ CASE clause = "else" ->
                        status_text' = progress_text /\ pc' = "delay"
                   [] clause = "bare" ->
                        UNCHANGED status_text /\ pc' = "delay"
                   [] OTHER ->
                        UNCHANGED status_text /\ pc' = "raised"
    /\ UNCHANGED << inputs, handler_vars, rendering, pair_vars,
                    db_failures, user_ids, broadcast_id, stats,
                    batch_num, idx, flood_value, record, clock, start_time,
                    result, attempts, ledger, sleeps >>

\* Faulty variant of DelayTaken: the delay is not taken.
DelayTakenNever == sleeps

\* Line 141: one asyncio.sleep(BROADCAST_DELAY) is taken.
\* Faulty variant of DelayTaken: no delay after the last batch.
DelayTakenBetweenOnly ==
    IF batch_num < Len(batches)
    THEN [sleeps EXCEPT !.delay = @ + 1]
    ELSE sleeps

DelayTaken == [sleeps EXCEPT !.delay = @ + 1]

\* Line 141: await asyncio.sleep(BROADCAST_DELAY), then the loop head.
InterBatchDelay ==
    /\ pc = "delay"
    /\ clock' = clock + BROADCAST_DELAY
    /\ sleeps' = DelayTaken
    /\ NextBatch(batches)
    /\ UNCHANGED << inputs, handler_vars, rendering, pair_vars,
                    db_failures, user_ids, broadcast_id, stats,
                    flood_value, record, status_text, start_time, result,
                    attempts, ledger, edit_log >>

\* Faulty variant of CompletedRecord: the status is left as it was.
CompletedRecordUnmarked == record

\* database.py lines 536-542, complete_broadcast: $set status "completed".
CompletedRecord == [record EXCEPT !.status = "completed"]

\* Faulty variant of Report: total read from the users collection at return.
ReportCountsCollection ==
    [total      |-> Len(repo_users),
     success    |-> stats.success,
     failed     |-> stats.failed,
     blocked    |-> stats.blocked,
     time_taken |-> format_duration(clock - start_time)]

\* Lines 147-151: the returned dict.
Report ==
    [total      |-> stats.total,
     success    |-> stats.success,
     failed     |-> stats.failed,
     blocked    |-> stats.blocked,
     time_taken |-> format_duration(clock - start_time)]

\* Lines 144-151 with Database.complete_broadcast: the record is marked
\* completed (or the call fails and is caught), the elapsed time is
\* formatted and the stats dict is returned.
CompleteBroadcast ==
    /\ pc = "complete"
    /\ \E db_ok \in (IF broadcast_id = "" THEN {TRUE}
                     ELSE DbOutcomes(db_failures)) :
          /\ db_failures' = IF db_ok THEN db_failures ELSE db_failures + 1
          /\ LET clause == RepoClause("complete_broadcast",
                                      db_ok /\ broadcast_id # "")
             IN  CASE clause = "else" ->
                        /\ record' = CompletedRecord
                        /\ result' = Report
                        /\ pc' = "done"
                   [] clause = "caught" ->
                        /\ UNCHANGED record
                        /\ result' = Report
                        /\ pc' = "done"
                   [] OTHER ->
                        /\ UNCHANGED << record, result >>
                        /\ pc' = "raised"
    /\ UNCHANGED << inputs, handler_vars, rendering, pair_vars,
                    user_ids, broadcast_id, stats, batch_num, idx,
                    flood_value, status_text, clock, start_time, attempts,
                    ledger, sleeps, edit_log >>

Next ==
    \/ GetAllUserIds
    \/ CreateBroadcast
    \/ Send
    \/ FloodSleep
    \/ Retry
    \/ UpdateBroadcastStats
    \/ EditProgress
    \/ InterBatchDelay
    \/ CompleteBroadcast

Spec == Init /\ [][Next]_vars

(***************************************************************************)
(* The users collection while a job runs                                   *)
(***************************************************************************)

\* The user ids that exist.
UserIds == 1 .. MaxChurnUsers + 1

\* The variables a change of the users collection leaves alone.
job_local == << batch_size, message, progress_msg, pc, user_ids,
               broadcast_id, stats, batch_num, idx, flood_value, record,
               status_text, clock, start_time, result, attempts, ledger,
               sleeps, db_failures, edit_log >>

\* database.py lines 63-91, add_user (called by the /start handler): a
\* user not yet in the collection is inserted.
AddUser(u) ==
    /\ \A i \in 1 .. Len(repo_users) : repo_users[i] # u
    /\ repo_users' = Append(repo_users, u)
    /\ UNCHANGED << job_local, handler_vars, rendering, pair_vars >>

\* A document of the users collection (database.py line 25) is deleted;
\* the bot has no such operation, an operator of the database does.
RemoveUser(u) ==
    /\ \E i \in 1 .. Len(repo_users) : repo_users[i] = u
    /\ repo_users' = SelectSeq(repo_users, LAMBDA x : x # u)
    /\ UNCHANGED << job_local, handler_vars, rendering, pair_vars >>

\* One job in batches of one, without a status message, over a small
\* collection that changes while the job runs.
InitChurn == InitJob(MaxChurnUsers, {1}, {"text"}) /\ progress_msg = FALSE

NextChurn ==
    \/ GetAllUserIds
    \/ CreateBroadcast
    \/ Send
    \/ FloodSleep
    \/ Retry
    \/ UpdateBroadcastStats
    \/ InterBatchDelay
    \/ CompleteBroadcast
    \/ \E u \in UserIds : AddUser(u)
    \/ \E u \in UserIds : RemoveUser(u)

SpecChurn == InitChurn /\ [][NextChurn]_vars

\* Long runs in batches of one: a text payload with every transport outcome
\* for up to MaxUsers recipients, and a payload with no recognized field
\* (no transport call is made for it) for up to MaxCadenceUsers recipients,
\* so that the tenth batch is reached.
InitCadence ==
    \/ InitJob(MaxUsers, {1}, {"text"})
    \/ InitJob(MaxCadenceUsers, {1}, {"other"})

SpecCadence == InitCadence /\ [][Next]_vars

(***************************************************************************)
(* The admin flow: handlers/admin_handlers.py and                          *)
(* handlers/callback_handlers.py                                           *)
(*                                                                         *)
(* Each user has at most one broadcast_callback coroutine in flight.  The  *)
(* job variables above follow the first job that is started; a later job   *)
(* is carried only as far as its start and its return, and its status      *)
(* message is another message than status_text.                            *)
(***************************************************************************)

\* Job variables no handler assigns.
job_internal == << repo_users, batch_size, user_ids, broadcast_id, stats,
                   batch_num, idx, flood_value, record, clock, start_time,
                   result, attempts, ledger, sleeps, db_failures >>

\* Job variables fixed when broadcast_callback calls broadcast_message.
job_entry == << message, progress_msg, pc, status_text, edit_log >>

\* The state before any handler has run: no job, no session, no callback.
InitIdle ==
    /\ message = "none"
    /\ progress_msg = FALSE
    /\ pc = "idle"
    /\ user_ids = << >>
    /\ broadcast_id = ""
    /\ stats = [total |-> 0, success |-> 0, failed |-> 0, blocked |-> 0]
    /\ batch_num = 0
    /\ idx = 0
    /\ flood_value = 0
    /\ record = NoRecord
    /\ status_text = [kind |-> "broadcast_confirm"]
    /\ clock = 0
    /\ start_time = 0
    /\ result = "none"
    /\ attempts = << >>
    /\ ledger = [first |-> ZeroCounts, retry |-> ZeroCounts, flooded |-> {},
                 demanded |-> 0]
    /\ sleeps = [flood |-> 0, delay |-> 0, flood_total |-> 0]
    /\ db_failures = 0
    /\ edit_log = << >>
    /\ cb = [u \in Users |-> NoCallback]
    /\ job_starts = << >>
    /\ rendering = NoRendering
    /\ jobs = [j \in JobIds |-> NoJob]
    /\ broadcasts = [i \in JobIds |-> NoRecord]

\* callback_handlers.py lines 258-312: the outer try/except Exception of
\* broadcast_callback logs the exception and ends the coroutine.
HandlerClause(ok) == IF ok THEN "else" ELSE "caught"

\* del admin_states[user_id] when the key is present.
ClearState(u) ==
    IF u \in DOMAIN admin_states
    THEN [admin_states EXCEPT ![u] = NoSession]
    ELSE admin_states

\* admin_handlers.py lines 93-107, broadcast_command: the session entry is
\* replaced before the prompt is sent, so a failed reply changes nothing.
BroadcastCommand(a) ==
    /\ a \in ADMIN_IDS
    /\ admin_states' = [admin_states EXCEPT
                           ![a] = [state |-> "awaiting_broadcast",
                                   message |-> "none"]]
    /\ UNCHANGED << job_internal, rendering, pair_vars,
                    job_entry, cb, job_starts >>

\* admin_states.get(user_id, {}): the entry of a user, or no entry.
SessionOf(u) ==
    IF u \in DOMAIN admin_states THEN admin_states[u] ELSE NoSession

\* Faulty variant of AwaitsContent: a message is also taken while the
\* confirmation is awaited.
AwaitsContentOrConfirmation(session) ==
    session.state \in {"awaiting_broadcast", "confirm_broadcast"}

\* admin_handlers.py line 192: if admin_state.get("state") ==
\* "awaiting_broadcast".
AwaitsContent(session) == session.state = "awaiting_broadcast"

\* admin_handlers.py lines 185-213, handle_admin_message: a non-command
\* message of an admin is stored when the state is awaiting_broadcast (the
\* entry is replaced before anything is awaited); in any other state the
\* handler does nothing.
HandleAdminMessage(a, m) ==
    /\ a \in ADMIN_IDS
    /\ admin_states' =
          IF AwaitsContent(SessionOf(a))
          THEN [admin_states EXCEPT
                  ![a] = [state |-> "confirm_broadcast", message |-> m]]
          ELSE admin_states
    /\ UNCHANGED << job_internal, rendering, pair_vars,
                    job_entry, cb, job_starts >>

\* Faulty variant of HasPayload: the stored message is not tested.
HasPayloadUntested(broadcast_msg) == TRUE

\* callback_handlers.py line 270: if not broadcast_msg.
HasPayload(broadcast_msg) == broadcast_msg # "none"

\* Confirm presses that have started a job or may still start one.
StartsInFlight ==
    Len(job_starts)
        + Cardinality({u \in Users : cb[u].at = "started_edit"})

\* Faulty variant of IsAdmin: the presser is not tested.
IsAdminUntested(u) == TRUE

\* callback_handlers.py line 259: callback.from_user.id in ADMIN_IDS.
IsAdmin(u) == u \in ADMIN_IDS

\* A user with no broadcast_callback coroutine in flight: none was started,
\* or the last one returned at line 260.
CanPress(u) == cb[u].at \in {"none", "not_admin"}

\* callback_handlers.py lines 258-272, a press of broadcast_confirm: a user
\* outside ADMIN_IDS returns at once; an admin with no stored message gets
\* the error answer; otherwise the stored message is read and the
\* coroutine awaits the "started" edit.
ConfirmPress(u) ==
    /\ CanPress(u)
    /\ IF ~ IsAdmin(u)
         THEN cb' = [cb EXCEPT ![u].at = "not_admin"]
         ELSE LET broadcast_msg == SessionOf(u).message
              IN  IF ~ HasPayload(broadcast_msg)
                    THEN cb' = [cb EXCEPT ![u].at = "answer"]
                    ELSE /\ StartsInFlight < MaxJobStarts
                         /\ cb' = [cb EXCEPT
                                      ![u] = [at |-> "started_edit",
                                              broadcast_msg |-> broadcast_msg]]
    /\ UNCHANGED << job_internal, rendering, pair_vars,
                    job_entry, admin_states, job_starts >>

\* callback_handlers.py lines 275-284: the "started" edit, then the call of
\* broadcast_message, which runs up to its first await.  A failed edit
\* ends the coroutine in the outer except.
StartedEdit(u) ==
    /\ cb[u].at = "started_edit"
    /\ \E edit_ok \in BOOLEAN :
          LET clause == HandlerClause(edit_ok)
          IN  IF clause = "else"
                THEN /\ job_starts' =
                            Append(job_starts,
                                   [admin   |-> u,
                                    message |-> cb[u].broadcast_msg])
                     /\ IF job_starts = << >>
                          THEN /\ message' = cb[u].broadcast_msg
                               /\ progress_msg' = TRUE
                               /\ pc' = "get_users"
                               /\ status_text' = [kind |-> "broadcast_started"]
                               /\ edit_log' =
                                     Append(edit_log,
                                            [batch |-> 0, ok |-> TRUE,
                                             text |-> "broadcast_started"])
                               /\ cb' = [cb EXCEPT ![u].at = "job"]
                          ELSE /\ cb' = [cb EXCEPT ![u].at = "other_job"]
                               /\ UNCHANGED job_entry
                ELSE /\ cb' = [cb EXCEPT ![u] = NoCallback]
                     /\ UNCHANGED << job_entry, job_starts >>
    /\ UNCHANGED << job_internal, rendering, pair_vars, admin_states >>

\* Faulty variant of final_text: the started text's total_users=0 reused.
final_text_zero_total ==
    [kind        |-> "broadcast_complete",
     total_users |-> 0,
     success     |-> result.success,
     failed      |-> result.failed,
     blocked     |-> result.blocked,
     time_taken  |-> result.time_taken]

\* callback_handlers.py lines 287-295: the final text built from the
\* returned stats.
final_text ==
    [kind        |-> "broadcast_complete",
     total_users |-> result.total,
     success     |-> result.success,
     failed      |-> result.failed,
     blocked     |-> result.blocked,
     time_taken  |-> result.time_taken]

\* callback_handlers.py lines 280-301: broadcast_message has returned (or
\* raised into the outer except); the final edit, then the session entry
\* is deleted.  A failed final edit ends the coroutine in the outer
\* except, before the deletion.
FinalEdit(u) ==
    /\ cb[u].at = "job"
    /\ pc \in {"done", "raised"}
    /\ IF pc = "raised"
         THEN /\ cb' = [cb EXCEPT ![u] = NoCallback]
              /\ pc' = "returned"
              /\ UNCHANGED << status_text, edit_log, admin_states >>
         ELSE \E edit_ok \in BOOLEAN :
                 LET clause == HandlerClause(edit_ok)
                 IN  /\ edit_log' = Append(edit_log,
                                           [batch |-> batch_num + 1,
                                            ok |-> edit_ok,
                                            text |-> "broadcast_complete"])
                     /\ pc' = "returned"
                     /\ IF clause = "else"
                          THEN /\ status_text' = final_text
                               /\ admin_states' = ClearState(u)
                               /\ cb' = [cb EXCEPT ![u].at = "answer"]
                          ELSE /\ cb' = [cb EXCEPT ![u] = NoCallback]
                               /\ UNCHANGED << status_text, admin_states >>
    /\ UNCHANGED << job_internal, rendering, pair_vars,
                    message, progress_msg, job_starts >>

\* The same lines for a job other than the first: its return, its final
\* edit of its own status message and the deletion of the session entry.
OtherJobReturns(u) ==
    /\ cb[u].at = "other_job"
    /\ \E edit_ok \in BOOLEAN :
          IF HandlerClause(edit_ok) = "else"
            THEN /\ admin_states' = ClearState(u)
                 /\ cb' = [cb EXCEPT ![u].at = "answer"]
            ELSE /\ cb' = [cb EXCEPT ![u] = NoCallback]
                 /\ UNCHANGED admin_states
    /\ UNCHANGED << job_internal, rendering, pair_vars,
                    job_entry, job_starts >>

\* callback_handlers.py lines 303-307, a press of broadcast_cancel by an
\* admin: the "cancelled" edit of the keyboard message, then the session
\* entry is deleted.
CancelPress(u) ==
    /\ CanPress(u)
    /\ IF ~ IsAdmin(u)
         THEN cb' = [cb EXCEPT ![u].at = "not_admin"]
         ELSE cb' = [cb EXCEPT ![u].at = "cancel_edit"]
    /\ UNCHANGED << job_internal, rendering, pair_vars,
                    job_entry, admin_states, job_starts >>

CancelEdit(u) ==
    /\ cb[u].at = "cancel_edit"
    /\ \E edit_ok \in BOOLEAN :
          IF HandlerClause(edit_ok) = "else"
            THEN /\ admin_states' = ClearState(u)
                 /\ cb' = [cb EXCEPT ![u].at = "answer"]
            ELSE /\ cb' = [cb EXCEPT ![u] = NoCallback]
                 /\ UNCHANGED admin_states
    /\ UNCHANGED << job_internal, rendering, pair_vars,
                    job_entry, job_starts >>

\* callback_handlers.py lines 271-272 and 309: callback.answer(), whose
\* failure is logged by the outer except; the coroutine ends either way.
Answer(u) ==
    /\ cb[u].at = "answer"
    /\ cb' = [cb EXCEPT ![u] = NoCallback]
    /\ UNCHANGED << job_internal, rendering, pair_vars,
                    job_entry, admin_states, job_starts >>

\* broadcast_callback for a confirm press of a user in U, up to its end.
ConfirmFlow(U) ==
    \/ \E u \in U : ConfirmPress(u)
    \/ \E u \in U : StartedEdit(u)
    \/ \E u \in U : FinalEdit(u)
    \/ \E u \in U : OtherJobReturns(u)
    \/ \E u \in U : Answer(u)

\* One admin's confirmed broadcast: the session of admin1 holds a stored
\* text message, the confirm keyboard is shown, and there are up to
\* MaxHandlerUsers recipients in batches of one, so that progress
\* renderings happen before the job is over.
InitHandler ==
    /\ \E n \in 0 .. MaxHandlerUsers : repo_users = [i \in 1 .. n |-> i]
    /\ batch_size = 1
    /\ InitIdle
    /\ admin_states = [a \in ADMIN_IDS |->
                          IF a = "admin1"
                            THEN [state |-> "confirm_broadcast",
                                  message |-> "text"]
                            ELSE NoSession]

NextHandler ==
    \/ GetAllUserIds
    \/ CreateBroadcast
    \/ Send
    \/ FloodSleep
    \/ Retry
    \/ UpdateBroadcastStats
    \/ EditProgress
    \/ InterBatchDelay
    \/ CompleteBroadcast
    \/ ConfirmFlow({"admin1"})

SpecHandler == InitHandler /\ [][NextHandler]_vars

\* The sessions of the two admins from the start of the bot, with up to
\* MaxSessionUsers recipients; no batch number reaches PROGRESS_EVERY, so
\* the job makes no progress edit.
InitSession ==
    /\ \E n \in 0 .. MaxSessionUsers : repo_users = [i \in 1 .. n |-> i]
    /\ batch_size = 1
    /\ InitIdle
    /\ admin_states = [a \in ADMIN_IDS |-> NoSession]

NextSession ==
    \/ GetAllUserIds
    \/ CreateBroadcast
    \/ Send
    \/ FloodSleep
    \/ Retry
    \/ UpdateBroadcastStats
    \/ InterBatchDelay
    \/ CompleteBroadcast
    \/ \E a \in ADMIN_IDS : BroadcastCommand(a)
    \/ \E a \in ADMIN_IDS : HandleAdminMessage(a, ContentOf(a))
    \/ ConfirmFlow(ADMIN_IDS)
    \/ \E u \in ADMIN_IDS : CancelPress(u)
    \/ \E u \in ADMIN_IDS : CancelEdit(u)

SpecSession == InitSession /\ [][NextSession]_vars

\* The session of one admin who sends content messages of two kinds, from
\* the start of the bot.
ContentKinds == {"text", "photo"}

NextContent ==
    \/ GetAllUserIds
    \/ CreateBroadcast
    \/ Send
    \/ FloodSleep
    \/ Retry
    \/ UpdateBroadcastStats
    \/ InterBatchDelay
    \/ CompleteBroadcast
    \/ BroadcastCommand("admin1")
    \/ \E m \in ContentKinds : HandleAdminMessage("admin1", m)
    \/ ConfirmFlow({"admin1"})
    \/ CancelPress("admin1")
    \/ CancelEdit("admin1")

SpecContent == InitSession /\ [][NextContent]_vars

\* The session of one admin while a user outside ADMIN_IDS presses the
\* buttons of the confirmation keyboard.
Guests == {"admin1", "user"}

NextGuest ==
    \/ GetAllUserIds
    \/ CreateBroadcast
    \/ Send
    \/ FloodSleep
    \/ Retry
    \/ UpdateBroadcastStats
    \/ InterBatchDelay
    \/ CompleteBroadcast
    \/ BroadcastCommand("admin1")
    \/ HandleAdminMessage("admin1", ContentOf("admin1"))
    \/ ConfirmFlow(Guests)
    \/ \E u \in Guests : CancelPress(u)
    \/ \E u \in Guests : CancelEdit(u)

SpecGuest == InitSession /\ [][NextGuest]_vars

\* The job under the scheduling of the asyncio event loop: every awaited
\* call returns or raises, and the coroutine is then resumed, so a step of
\* the job that stays possible is eventually taken.
InitFair == InitJob(MaxFairUsers, {1}, {"text"})

SpecFair == InitFair /\ [][Next]_vars /\ WF_vars(Next)

(***************************************************************************)
(* Two calls of broadcast_message side by side.  Each call has its own     *)
(* locals (user_ids, stats, broadcast_id, the loop counters) and its own   *)
(* document in the broadcasts collection; the collections and the bound on *)
(* rate-limit waits are shared.  The payload has a recognized variant and   *)
(* no progress message is passed (progress_msg=None).  Of the repository   *)
(* calls the insert may fail, which leaves a call without a document; the  *)
(* updates reach the server.  A step runs one call from an await to its    *)
(* next await.                                                             *)
(***************************************************************************)

\* The variables of the job followed on its own, which these steps leave.
single_job == << batch_size, message, progress_msg, pc, user_ids,
                 broadcast_id, stats, batch_num, idx, flood_value, record,
                 status_text, clock, start_time, result, attempts, ledger,
                 sleeps, edit_log >>

JobBatches(j) == batch_list(jobs[j].user_ids, batch_size)
JobBatch(j) == JobBatches(j)[jobs[j].batch_num]

\* Faulty variant of InsertedId: the _id is counted from the completed
\* documents, so that two running calls are given the same one.
InsertedIdReused ==
    1 + Cardinality({i \in JobIds : broadcasts[i].status = "completed"})

\* database.py line 508-509, insert_one: the collection gives every
\* inserted document an _id of its own.
InsertedId == 1 + Cardinality({i \in JobIds : broadcasts[i].exists})

\* What the call j becomes when its inner loop moves to the next
\* recipient, or leaves the batch (lines 64, 112).
JobNextUser(j, job) ==
    IF job.idx < Len(JobBatch(j))
    THEN [job EXCEPT !.idx = @ + 1, !.pc = "send"]
    ELSE [job EXCEPT !.pc = "update_db"]

\* What the call j becomes when its outer loop moves to the next batch,
\* or is exhausted (lines 62, 144).
JobNextBatch(j, job) ==
    IF job.batch_num < Len(batch_list(job.user_ids, batch_size))
    THEN [job EXCEPT !.batch_num = @ + 1, !.idx = 1, !.pc = "send"]
    ELSE [job EXCEPT !.pc = "complete"]

\* Lines 27-47: broadcast_message is called and awaits get_all_user_ids.
JobCall(j) ==
    /\ jobs[j].pc = "idle"
    /\ jobs' = [jobs EXCEPT ![j].pc = "get_users"]
    /\ UNCHANGED << repo_users, single_job, db_failures, handler_vars,
                    rendering, broadcasts >>

\* Lines 47-51: the snapshot and total_users.
JobGetUsers(j) ==
    /\ jobs[j].pc = "get_users"
    /\ jobs' = [jobs EXCEPT ![j].user_ids = repo_users, ![j].pc = "create"]
    /\ UNCHANGED << repo_users, single_job, db_failures, handler_vars,
                    rendering, broadcasts >>

\* Lines 51-62 with Database.create_broadcast.
JobCreate(j) ==
    /\ jobs[j].pc = "create"
    /\ \E db_ok \in DbOutcomes(db_failures) :
          LET clause == RepoClause("create_broadcast", db_ok)
              total  == Len(jobs[j].user_ids)
              built  == [jobs[j] EXCEPT !.stats.total = total]
          IN  /\ db_failures' = IF db_ok THEN db_failures ELSE db_failures + 1
              /\ IF clause = "else"
                 THEN /\ broadcasts' =
                            [broadcasts EXCEPT
                               ![InsertedId] = [exists      |-> TRUE,
                                                total_users |-> total,
                                                success     |-> 0,
                                                failed      |-> 0,
                                                blocked     |-> 0,
                                                status      |-> "in_progress"]]
                      /\ jobs' = [jobs EXCEPT
                                    ![j] = JobNextBatch(j,
                                              [built EXCEPT
                                                 !.broadcast_id = InsertedId])]
                 ELSE /\ UNCHANGED broadcasts
                      /\ jobs' = [jobs EXCEPT ![j] = JobNextBatch(j, built)]
    /\ UNCHANGED << repo_users, single_job, handler_vars, rendering >>

\* Lines 65-109 up to the next await: the first attempt and its clause.
JobSend(j) ==
    /\ jobs[j].pc = "send"
    /\ \E outcome \in FirstOutcomes(jobs[1].floods + jobs[2].floods) :
          LET clause == ExceptClause(outcome)
          IN  jobs' =
                [jobs EXCEPT
                   ![j] = IF clause = "flood"
                          THEN [@ EXCEPT !.pc = "flood_sleep",
                                         !.floods = @ + 1]
                          ELSE JobNextUser(j,
                                  [@ EXCEPT
                                     !.stats = Bump(@, ClauseCounter(clause)),
                                     !.handled = @ + 1])]
    /\ UNCHANGED << repo_users, single_job, db_failures, handler_vars,
                    rendering, broadcasts >>

\* Line 100: the rate-limit wait.
JobFloodSleep(j) ==
    /\ jobs[j].pc = "flood_sleep"
    /\ jobs' = [jobs EXCEPT ![j].pc = "retry"]
    /\ UNCHANGED << repo_users, single_job, db_failures, handler_vars,
                    rendering, broadcasts >>

\* Lines 102-106: the single retry.
JobRetry(j) ==
    /\ jobs[j].pc = "retry"
    /\ \E outcome \in Outcomes :
          LET clause == RetryClause(outcome)
          IN  jobs' =
                [jobs EXCEPT
                   ![j] = JobNextUser(j,
                             [@ EXCEPT
                                !.stats = Bump(@, RetryCounter(clause)),
                                !.handled = @ + 1])]
    /\ UNCHANGED << repo_users, single_job, db_failures, handler_vars,
                    rendering, broadcasts >>

\* Lines 112-115 with Database.update_broadcast_stats: the $inc on the
\* document with the _id of this call, applied by the server in one step.
\* ObjectId("") raises, inside the method's try, for the handle of a failed
\* create.
JobUpdate(j) ==
    /\ jobs[j].pc = "update_db"
    /\ LET clause == RepoClause("update_broadcast_stats",
                                jobs[j].broadcast_id # 0)
           delta  == BatchDelta(JobBatch(j))
           id     == jobs[j].broadcast_id
       IN  IF clause = "else"
           THEN /\ broadcasts' =
                      [broadcasts EXCEPT
                         ![id].success = @ + delta.success,
                         ![id].failed  = @ + delta.failed,
                         ![id].blocked = @ + delta.blocked]
                /\ jobs' =
                      [jobs EXCEPT
                         ![j].issued.success = @ + delta.success,
                         ![j].issued.failed  = @ + delta.failed,
                         ![j].issued.blocked = @ + delta.blocked,
                         ![j].pc = "delay"]
           ELSE /\ UNCHANGED broadcasts
                /\ jobs' = [jobs EXCEPT ![j].pc = "delay"]
    /\ UNCHANGED << repo_users, single_job, db_failures, handler_vars,
                    rendering >>

\* Line 141: the inter-batch delay, then the next batch.
JobDelay(j) ==
    /\ jobs[j].pc = "delay"
    /\ jobs' = [jobs EXCEPT ![j] = JobNextBatch(j, @)]
    /\ UNCHANGED << repo_users, single_job, db_failures, handler_vars,
                    rendering, broadcasts >>

\* Lines 144-151 with Database.complete_broadcast: the $set on the document
\* of this call, and the stats dict returned.
JobComplete(j) ==
    /\ jobs[j].pc = "complete"
    /\ LET clause == RepoClause("complete_broadcast",
                                jobs[j].broadcast_id # 0)
       IN  broadcasts' =
              IF clause = "else"
              THEN [broadcasts EXCEPT
                      ![jobs[j].broadcast_id].status = "completed"]
              ELSE broadcasts
    /\ jobs' = [jobs EXCEPT ![j].result = jobs[j].stats, ![j].pc = "done"]
    /\ UNCHANGED << repo_users, single_job, db_failures, handler_vars,
                    rendering >>

\* The bot has been started and no handler of the broadcast has run; up to
\* MaxPairUsers users are stored and more may join while the jobs run.
InitPair ==
    /\ \E n \in 0 .. MaxPairUsers : repo_users = [i \in 1 .. n |-> i]
    /\ batch_size = 1
    /\ InitIdle
    /\ admin_states = [a \in ADMIN_IDS |-> NoSession]

NextPair ==
    \/ \E j \in JobIds : JobCall(j)
    \/ \E j \in JobIds : JobGetUsers(j)
    \/ \E j \in JobIds : JobCreate(j)
    \/ \E j \in JobIds : JobSend(j)
    \/ \E j \in JobIds : JobFloodSleep(j)
    \/ \E j \in JobIds : JobRetry(j)
    \/ \E j \in JobIds : JobUpdate(j)
    \/ \E j \in JobIds : JobDelay(j)
    \/ \E j \in JobIds : JobComplete(j)
    \/ \E u \in UserIds : AddUser(u)

SpecPair == InitPair /\ [][NextPair]_vars

(***************************************************************************)
(* utils.create_progress_bar on its own: the function is called once, with *)
(* any arguments 0 <= current <= total and a length of at least one cell.  *)
(***************************************************************************)

\* utils.py lines 208-232: one call, with the string it returns kept as the
\* numbers of filled and empty cells and the percentage.
Render(current, total, length) ==
    /\ ~rendering.called
    /\ rendering' = [called |-> TRUE, current |-> current, total |-> total,
                     length |-> length,
                     bar |-> create_progress_bar(current, total, length)]
    /\ UNCHANGED << inputs, job_local, handler_vars, pair_vars >>

InitBar ==
    /\ repo_users = << >>
    /\ batch_size = 1
    /\ InitIdle
    /\ admin_states = [a \in ADMIN_IDS |-> NoSession]

NextBar ==
    \E total \in 0 .. MaxBarTotal, length \in 1 .. MaxBarLength :
        \E current \in 0 .. total : Render(current, total, length)

SpecBar == InitBar /\ [][NextBar]_vars

TypeOK ==
    /\ pc \in {"idle", "get_users", "create", "send", "flood_sleep", "retry",
               "update_db", "progress", "delay", "complete", "done", "raised",
               "returned"}
    /\ batch_size \in BatchSizes
    /\ message \in MessageKinds \cup {"none"}
    /\ progress_msg \in BOOLEAN
    /\ Len(user_ids) <= Len(repo_users)
    /\ broadcast_id \in {"", "oid"}
    /\ \A f \in {"total", "success", "failed", "blocked"} : stats[f] \in Nat
    /\ batch_num \in 0 .. Len(repo_users) + 1
    /\ idx \in 0 .. batch_size
    /\ flood_value \in FloodValues \cup {0}
    /\ db_failures \in 0 .. MaxDbFailures
    /\ clock \in Nat
    /\ \A a \in ADMIN_IDS :
          admin_states[a].state \in {"none", "awaiting_broadcast",
                                     "confirm_broadcast"}
    /\ \A u \in Users :
          cb[u].at \in {"none", "not_admin", "started_edit", "job",
                        "other_job", "cancel_edit", "answer"}
    /\ Len(job_starts) <= MaxJobStarts

(***************************************************************************)
(* Vocabulary of the properties                                            *)
(***************************************************************************)

\* Recipients a stats or report dict has counted.
Counted(s) == s.success + s.failed + s.blocked

\* Whether some transport call was made for user u.
Attempted(u) == \E k \in 1 .. Len(attempts) : attempts[k].user = u

\* 1-based position in user_ids of the recipient being processed
\* (meaningful once the outer loop is entered).
Position == (batch_num - 1) * batch_size + idx

\* Exceptions raised by retries.
RetryFailures ==
    ledger.retry["Unreachable"] + ledger.retry["FloodWait"]
        + ledger.retry["Error"]

ReportFields == {"total", "success", "failed", "blocked", "time_taken"}

(***************************************************************************)
(* C1: the report returned by broadcast_message satisfies                  *)
(* success + failed + blocked == N == total, N the size of the recipient   *)
(* list, for every batch size and every assignment of transport outcomes.  *)
(***************************************************************************)
C1_ReportAccountsForAll ==
    pc = "done" =>
        /\ Counted(result) = Len(user_ids)
        /\ result.total = Len(user_ids)

\* A finished run over two batches or more in which every counter moved.
C1_Witness ==
    /\ pc = "done"
    /\ Len(user_ids) > batch_size
    /\ result.success > 0 /\ result.failed > 0 /\ result.blocked > 0
    /\ Counted(result) = Len(user_ids)

(***************************************************************************)
(* C2: in every reachable state success + failed + blocked <= total, and   *)
(* none of success, failed, blocked decreases in any step.                 *)
(***************************************************************************)
C2_CountedWithinTotal == Counted(stats) <= stats.total

C2_CountersMonotone ==
    /\ stats'.success >= stats.success
    /\ stats'.failed  >= stats.failed
    /\ stats'.blocked >= stats.blocked

C2_BoundedAndMonotone ==
    /\ [] C2_CountedWithinTotal
    /\ [][C2_CountersMonotone]_vars

\* Mid-run: some but not all recipients counted, a rate-limited one among
\* them.
C2_Witness ==
    /\ pc = "send"
    /\ 0 < Counted(stats) /\ Counted(stats) < stats.total
    /\ ledger.first["FloodWait"] > 0

(***************************************************************************)
(* C3: for a Message with a recognized content field every recipient of    *)
(* the snapshot receives a delivery attempt, whatever the outcomes of the  *)
(* recipients before it: no outcome ends the loop early.                   *)
(***************************************************************************)
C3_EveryRecipientAttempted ==
    Recognized(message) =>
        /\ pc # "raised"
        /\ pc \in {"send", "flood_sleep", "retry", "update_db"} =>
              \A p \in 1 .. Position - 1 : Attempted(user_ids[p])
        /\ pc \in {"flood_sleep", "retry", "update_db"} =>
              Attempted(user_ids[Position])
        /\ pc \in {"complete", "done"} =>
              \A p \in 1 .. Len(user_ids) : Attempted(user_ids[p])

\* A finished run in which an Unreachable, an other error and a failed
\* retry all occurred and at most one recipient succeeded.
C3_Witness ==
    /\ pc = "done"
    /\ Recognized(message)
    /\ Len(user_ids) >= 4
    /\ ledger.first["Unreachable"] > 0
    /\ ledger.first["Error"] > 0
    /\ RetryFailures > 0
    /\ \A p \in 1 .. Len(user_ids) : Attempted(user_ids[p])

(***************************************************************************)
(* C4: whatever the transport outcomes (first attempt or retry), the       *)
(* progress-edit failures and the repository failures, broadcast_message   *)
(* never ends in an uncaught error: every state but the final one has a    *)
(* next segment, and the final one holds the report with total, success,   *)
(* failed, blocked and the elapsed-time string.                            *)
(***************************************************************************)
C4_NeverRaises ==
    /\ pc # "raised"
    /\ pc # "done" => ENABLED Next
    /\ pc = "done" =>
          /\ DOMAIN result = ReportFields
          /\ \A f \in ReportFields \ {"time_taken"} : result[f] \in Nat
          /\ result.time_taken = format_duration(clock - start_time)

\* A finished run that met a repository failure, a failed progress edit and
\* a failed retry.
C4_Witness ==
    /\ pc = "done"
    /\ db_failures > 0
    /\ \E k \in 1 .. Len(edit_log) : ~ edit_log[k].ok
    /\ RetryFailures > 0
    /\ DOMAIN result = ReportFields

(***************************************************************************)
(* C5: a recipient whose first attempt is rate-limited increments exactly  *)
(* one counter: success (not failed) when the retry succeeds, failed (not  *)
(* success) when the retry fails; blocked is unchanged in both cases.      *)
(* Neither the FloodWait itself nor the wait changes a counter.            *)
(***************************************************************************)
C5_RateLimitedStep ==
    /\ (pc = "send" /\ pc' = "flood_sleep") => stats' = stats
    /\ pc = "flood_sleep" => stats' = stats
    /\ pc = "retry" =>
          IF ledger'.retry["ok"] = ledger.retry["ok"] + 1
          THEN stats' = [stats EXCEPT !.success = @ + 1]
          ELSE stats' = [stats EXCEPT !.failed = @ + 1]

C5_RateLimitedCountsOnce == [][C5_RateLimitedStep]_vars

\* A run whose one rate-limited recipient was delivered by the retry, with
\* another recipient failed outright.
C5_Witness ==
    /\ ledger.first["FloodWait"] = 1
    /\ ledger.retry["ok"] = 1
    /\ stats.success = 1
    /\ stats.failed = ledger.first["Error"]
    /\ stats.failed > 0
    /\ stats.blocked = 0

(***************************************************************************)
(* C6: a recipient classified Blocked (its delivery attempt raises         *)
(* UserIsBlocked or InputUserDeactivated) increments blocked by exactly    *)
(* one, leaves success and failed unchanged, and gets no second attempt:   *)
(* the loop moves on to the next recipient, and retries are made only for  *)
(* rate-limited recipients.                                                *)
(***************************************************************************)
C6_BlockedStep ==
    (pc = "send"
        /\ ledger'.first["Unreachable"] = ledger.first["Unreachable"] + 1) =>
       /\ stats' = [stats EXCEPT !.blocked = @ + 1]
       /\ Len(attempts') = Len(attempts) + 1
       /\ \/ pc' = "send" /\ batch_num' = batch_num /\ idx' = idx + 1
          \/ pc' = "update_db" /\ idx = Len(batch)

C6_RetriesOnlyAfterFloodWait ==
    /\ \A k \in 1 .. Len(attempts) :
          attempts[k].kind = "retry" => attempts[k].user \in ledger.flooded
    /\ stats.blocked = ledger.first["Unreachable"]
    /\ pc \in {"flood_sleep", "retry"} => user_id \in ledger.flooded

C6_BlockedCountsOnceNoRetry ==
    /\ [][C6_BlockedStep]_vars
    /\ [] C6_RetriesOnlyAfterFloodWait

\* A finished run with two blocked recipients and neither a success nor a
\* failure, each recipient attempted exactly once.
C6_Witness ==
    /\ pc = "done"
    /\ stats.blocked = 2
    /\ stats.success = 0 /\ stats.failed = 0
    /\ Len(attempts) = 2

(***************************************************************************)
(* C7 as stated: if the transport raises Unreachable for exactly k of the  *)
(* N recipients, on whichever attempt, the final report has blocked == k   *)
(* and success + failed == N - k.                                          *)
(***************************************************************************)
C7_Original ==
    pc = "done" =>
        LET k == ledger.first["Unreachable"] + ledger.retry["Unreachable"]
        IN  /\ result.blocked = k
            /\ result.success + result.failed = Len(user_ids) - k

(***************************************************************************)
(* C7 amended: if the transport raises Unreachable on the first attempt    *)
(* for exactly k of the N recipients, the final report has blocked == k    *)
(* and success + failed == N - k; an Unreachable raised by the retry after *)
(* a rate-limit wait counts toward failed.                                 *)
(***************************************************************************)
C7_BlockedIsFirstAttemptUnreachable ==
    pc = "done" =>
        LET k == ledger.first["Unreachable"]
        IN  /\ result.blocked = k
            /\ result.success + result.failed = Len(user_ids) - k
            /\ result.failed >= ledger.retry["Unreachable"]

\* A finished run with Unreachable raised on a first attempt and on a retry.
C7_Witness ==
    /\ pc = "done"
    /\ ledger.first["Unreachable"] > 0
    /\ ledger.retry["Unreachable"] > 0
    /\ result.blocked = ledger.first["Unreachable"]

(***************************************************************************)
(* C8: batch_list(recipients, B) yields exactly ceil(N/B) batches for N    *)
(* recipients: every batch but the last has exactly B elements, the last   *)
(* between 1 and B, and the batches concatenated in yield order give the   *)
(* original list; N = 0 gives no batch, and N = 120, B = 50 gives batches  *)
(* of 50, 50 and 20.                                                       *)
(***************************************************************************)
\* The least k with k * b >= n.
Ceil(n, b) == CHOOSE k \in 0 .. n : k * b >= n /\ (k = 0 \/ (k - 1) * b < n)

RECURSIVE Concat(_)
Concat(seqs) ==
    IF seqs = << >> THEN << >> ELSE Head(seqs) \o Concat(Tail(seqs))

IsPartition(bs, items, size) ==
    /\ Len(bs) = Ceil(Len(items), size)
    /\ \A k \in 1 .. Len(bs) - 1 : Len(bs[k]) = size
    /\ Len(bs) > 0 => Len(bs[Len(bs)]) \in 1 .. size
    /\ Concat(bs) = items

C8_BatchListPartitions ==
    /\ IsPartition(batch_list(user_ids, batch_size), user_ids, batch_size)
    /\ IsPartition(batch_list(repo_users, batch_size), repo_users, batch_size)
    /\ batch_list(<< >>, batch_size) = << >>
    /\ LET bs == batch_list([i \in 1 .. 120 |-> i], 50)
       IN  [k \in 1 .. Len(bs) |-> Len(bs[k])] = << 50, 50, 20 >>
    /\ pc \in {"send", "flood_sleep", "retry", "update_db"} =>
          /\ batch_num \in 1 .. Len(batches)
          /\ idx \in 1 .. Len(batch)
          /\ user_id = user_ids[Position]

\* The job is in the short last batch of a list that does not divide evenly.
C8_Witness ==
    /\ pc = "send"
    /\ batch_size > 1
    /\ Len(user_ids) % batch_size # 0
    /\ Len(batches) >= 3
    /\ batch_num = Len(batches)
    /\ Len(batch) < batch_size

(***************************************************************************)
(* C9: with an empty recipient list the job runs zero batches, makes no    *)
(* transport call, takes no rate-limit wait and no inter-batch delay, and  *)
(* returns total = success = failed = blocked = 0.                         *)
(***************************************************************************)
C9_EmptyListDoesNothing ==
    (user_ids = << >> /\ pc \notin {"get_users", "create"}) =>
        /\ pc \in {"complete", "done"}
        /\ batch_num = 0
        /\ attempts = << >>
        /\ sleeps.flood = 0 /\ sleeps.delay = 0
        /\ clock = start_time
        /\ stats = [total |-> 0, success |-> 0, failed |-> 0, blocked |-> 0]
        /\ pc = "done" =>
              /\ result.total = 0 /\ result.success = 0
              /\ result.failed = 0 /\ result.blocked = 0

\* A finished run over an empty snapshot.
C9_Witness ==
    /\ pc = "done"
    /\ user_ids = << >>
    /\ result.total = 0
    /\ attempts = << >>

(***************************************************************************)
(* C10: the report and the sequence of delivery attempts are functions of  *)
(* the recipient snapshot, the Message and the outcomes the transport      *)
(* produced, and of nothing else: two runs that agree on these return the  *)
(* same total, success, failed and blocked and make the same attempts      *)
(* whether no progress message is passed, its edits succeed or its edits   *)
(* fail.  A progress edit, failed or not, changes no counter and is        *)
(* followed by the inter-batch delay.                                      *)
(***************************************************************************)
\* The counts fixed by the transport's outcomes alone.
ExpectedCounts ==
    IF Recognized(message)
    THEN [success |-> ledger.first["ok"] + ledger.retry["ok"],
          failed  |-> ledger.first["Error"] + RetryFailures,
          blocked |-> ledger.first["Unreachable"]]
    ELSE [success |-> Len(user_ids), failed |-> 0, blocked |-> 0]

\* The attempts fixed by the snapshot and the set of rate-limited users.
RECURSIVE ExpectedAttempts(_)
ExpectedAttempts(users) ==
    IF users = << >> \/ ~ Recognized(message) THEN << >>
    ELSE << << Head(users), "first" >> >>
         \o (IF Head(users) \in ledger.flooded
             THEN << << Head(users), "retry" >> >> ELSE << >>)
         \o ExpectedAttempts(Tail(users))

C10_ReportDetermined ==
    pc = "done" =>
        /\ result.total = Len(user_ids)
        /\ [f \in {"success", "failed", "blocked"} |-> result[f]]
              = ExpectedCounts
        /\ [k \in 1 .. Len(attempts) |->
               << attempts[k].user, attempts[k].kind >>]
              = ExpectedAttempts(user_ids)

C10_EditStep ==
    pc = "progress" =>
        /\ stats' = stats
        /\ attempts' = attempts
        /\ ledger' = ledger
        /\ pc' = "delay"

C10_ProgressNeverAffectsRun ==
    /\ [] C10_ReportDetermined
    /\ [][C10_EditStep]_vars

\* A finished run whose progress edit failed, with a rate-limited recipient.
C10_Witness ==
    /\ pc = "done"
    /\ progress_msg
    /\ \E k \in 1 .. Len(edit_log) : ~ edit_log[k].ok
    /\ ledger.first["FloodWait"] > 0
    /\ Counted(result) = Len(user_ids)

(***************************************************************************)
(* C11: at every progress rendering, the reported remaining equals         *)
(* total - success - failed - blocked computed from the counters at that   *)
(* moment, and is >= 0; the same holds of every progress text the status   *)
(* message shows.                                                          *)
(***************************************************************************)
C11_RemainingAtRendering ==
    /\ pc = "progress" =>
          /\ progress_text.remaining = stats.total - Counted(stats)
          /\ progress_text.remaining >= 0
          /\ progress_text.remaining = Len(user_ids) - Position
    /\ status_text.kind = "broadcast_progress" =>
          /\ status_text.remaining >= 0
          /\ status_text.remaining + Counted(status_text) = stats.total

\* A rendering after the fifth batch of six, with a recipient still to
\* come and failed and blocked recipients among those already counted.
C11_Witness ==
    /\ pc = "progress"
    /\ progress_text.remaining = 1
    /\ stats.failed > 0
    /\ stats.blocked > 0
    /\ stats.success > 0

(***************************************************************************)
(* C12: when create_broadcast fails at job start (no usable handle is      *)
(* returned), the job still attempts delivery to every recipient and       *)
(* returns the success, failed and blocked counts that the transport       *)
(* outcomes determine, as with a working repository; no record is ever     *)
(* written and the failing update and completion calls do not raise.       *)
(***************************************************************************)
C12_CreateFailureHarmless ==
    (pc \notin {"get_users", "create"} /\ broadcast_id = "") =>
        /\ pc # "raised"
        /\ record = NoRecord
        /\ pc = "done" =>
              /\ result.total = Len(user_ids)
              /\ [f \in {"success", "failed", "blocked"} |-> result[f]]
                    = ExpectedCounts
              /\ [k \in 1 .. Len(attempts) |->
                     << attempts[k].user, attempts[k].kind >>]
                    = ExpectedAttempts(user_ids)
              /\ Recognized(message) =>
                    \A i \in 1 .. Len(user_ids) : Attempted(user_ids[i])

\* A finished run without a record in which three recipients were
\* attempted, with a success and a blocked recipient among them.
C12_Witness ==
    /\ pc = "done"
    /\ broadcast_id = ""
    /\ record = NoRecord
    /\ Len(user_ids) = 3
    /\ result.success > 0
    /\ result.blocked > 0
    /\ \A i \in 1 .. 3 : Attempted(user_ids[i])

(***************************************************************************)
(* C13: a failure to enumerate the recipients at job start is fatal to the *)
(* job: the broadcast surfaces a JobSetupFailure and does not report an    *)
(* ordinary completed broadcast.  The code does otherwise:                 *)
(* get_all_user_ids catches the failure and returns [], and the job        *)
(* reports a completed broadcast with total 0.                             *)
(***************************************************************************)

\* The query of get_all_user_ids raised: the snapshot is empty although
\* the users collection is not.
EnumerationFailed == pc \notin {"idle", "get_users"} /\ user_ids # repo_users

C13_EnumerationFailureIsFatal ==
    EnumerationFailed =>
        /\ pc # "done"
        /\ record.status # "completed"

(***************************************************************************)
(* C14: a broadcast job is started for an admin only by a confirm press of *)
(* that admin made while the admin's session is AwaitingConfirmation       *)
(* (confirm_broadcast) with a stored payload, which is reached only from   *)
(* AwaitingContent (awaiting_broadcast) by a content message of the same   *)
(* admin; a confirm press in Idle or AwaitingContent starts no job, and    *)
(* nothing is sent to any recipient before a job has started.              *)
(***************************************************************************)

\* The step is a button press of u: a broadcast_callback coroutine starts.
Pressed(u) == cb[u].at = "none" /\ cb'[u].at # "none"

C14_Step ==
    \* a job starts only out of the coroutine of an admin's confirm press,
    \* with the payload that press read from the admin's own session
    /\ job_starts' # job_starts =>
          \E u \in ADMIN_IDS :
             /\ cb[u].at = "started_edit"
             /\ cb[u].broadcast_msg = ContentOf(u)
             /\ job_starts' = Append(job_starts,
                                     [admin |-> u,
                                      message |-> cb[u].broadcast_msg])
    \* the coroutine gets there only by a press in AwaitingConfirmation
    /\ \A u \in Users :
          (cb'[u].at = "started_edit" /\ cb[u].at # "started_edit") =>
             /\ Pressed(u)
             /\ u \in ADMIN_IDS
             /\ admin_states[u].state = "confirm_broadcast"
             /\ admin_states[u].message # "none"
             /\ cb'[u].broadcast_msg = admin_states[u].message
    \* a press in Idle or AwaitingContent leads to the answer or to the
    \* cancel edit, and starts nothing
    /\ \A u \in ADMIN_IDS :
          (Pressed(u) /\ admin_states[u].state # "confirm_broadcast") =>
             /\ cb'[u].at \in {"answer", "cancel_edit"}
             /\ UNCHANGED << job_starts, pc, attempts >>
    \* AwaitingConfirmation is entered from AwaitingContent only, leaving
    \* the other admins' sessions alone
    /\ \A a \in ADMIN_IDS :
          (admin_states'[a].state = "confirm_broadcast"
              /\ admin_states[a] # admin_states'[a]) =>
             /\ admin_states[a].state = "awaiting_broadcast"
             /\ admin_states'[a].message = ContentOf(a)
             /\ \A b \in ADMIN_IDS \ {a} : admin_states'[b] = admin_states[b]
    \* no delivery attempt is made before a job has started
    /\ attempts' # attempts => job_starts # << >>

C14_Sessions ==
    /\ \A a \in ADMIN_IDS :
          admin_states[a].message # "none"
             <=> admin_states[a].state = "confirm_broadcast"
    /\ (job_starts = << >>) <=> (pc = "idle")
    /\ job_starts = << >> => attempts = << >>
    /\ job_starts # << >> => message = job_starts[1].message
    /\ \A k \in 1 .. Len(job_starts) :
          /\ job_starts[k].admin \in ADMIN_IDS
          /\ job_starts[k].message = ContentOf(job_starts[k].admin)

C14_JobOnlyAfterConfirm ==
    /\ [][C14_Step]_vars
    /\ [] C14_Sessions

\* admin2's confirmed photo broadcast has reached a recipient while admin1,
\* who sent /broadcast and pressed confirm without content, got only the
\* answer and is still in AwaitingContent.
C14_Witness ==
    /\ Len(job_starts) = 1
    /\ job_starts[1].admin = "admin2"
    /\ message = "photo"
    /\ Len(attempts) > 0
    /\ admin_states["admin1"].state = "awaiting_broadcast"
    /\ cb["admin1"].at = "answer"

(***************************************************************************)
(* C15: after a confirmed broadcast's job returns, the handler makes one   *)
(* final edit of the status message with a summary whose total, success,   *)
(* failed and blocked equal the returned report, after every progress edit *)
(* of that job; when this edit succeeds the last content of the status     *)
(* message is the final summary, and when it fails (the handler's outer    *)
(* except logs the exception) the status message keeps its earlier         *)
(* content.                                                                *)
(***************************************************************************)

\* The status message shows the summary of the returned report.
ShowsSummary ==
    /\ status_text.kind = "broadcast_complete"
    /\ status_text.total_users = result.total
    /\ status_text.success = result.success
    /\ status_text.failed = result.failed
    /\ status_text.blocked = result.blocked

\* The edits of the status message that carry the final summary.
SummaryEdits ==
    {k \in 1 .. Len(edit_log) : edit_log[k].text = "broadcast_complete"}

\* The statement without the proviso: once the handler is past the final
\* edit, the status message shows the summary.
C15_Original == pc = "returned" => ShowsSummary

C15_FinalSummaryAfterProgress ==
    /\ SummaryEdits = IF pc = "returned" THEN {Len(edit_log)} ELSE {}
    /\ pc = "returned" =>
          /\ \A k \in 1 .. Len(edit_log) - 1 :
                edit_log[k].text \in {"broadcast_started",
                                      "broadcast_progress"}
          /\ IF edit_log[Len(edit_log)].ok
               THEN ShowsSummary
               ELSE status_text.kind \in {"broadcast_started",
                                          "broadcast_progress"}
    /\ status_text.kind = "broadcast_complete" => pc = "returned"

\* The summary of a broadcast to six recipients, some of them failed, is
\* shown after a progress edit that succeeded.
C15_Witness ==
    /\ pc = "returned"
    /\ ShowsSummary
    /\ result.total = 6
    /\ result.failed > 0
    /\ \E k \in 1 .. Len(edit_log) :
          edit_log[k].text = "broadcast_progress" /\ edit_log[k].ok

(***************************************************************************)
(* C16: every recipient gets at most two delivery attempts; a second       *)
(* attempt is made only when the first attempt was rate limited with a     *)
(* demanded wait d, directly after it and after a wait of d has been       *)
(* taken; no recipient gets a third attempt or a second rate-limit wait.   *)
(***************************************************************************)

\* The attempts of the kind k made for the recipient u.
AttemptsOf(u, k) ==
    {i \in 1 .. Len(attempts) :
        attempts[i].user = u /\ attempts[i].kind = k}

\* The retries made so far.
Retries == {i \in 1 .. Len(attempts) : attempts[i].kind = "retry"}

C16_AtMostOneRetryAfterWait ==
    /\ \A i \in 1 .. Len(repo_users) :
          /\ Cardinality(AttemptsOf(repo_users[i], "first")) <= 1
          /\ Cardinality(AttemptsOf(repo_users[i], "retry")) <= 1
    /\ \A i \in Retries :
          /\ i > 1
          /\ attempts[i - 1].kind = "first"
          /\ attempts[i - 1].user = attempts[i].user
          /\ attempts[i].user \in ledger.flooded
    \* one wait per rate-limited first attempt, taken before the retry
    /\ Cardinality(ledger.flooded) = ledger.first["FloodWait"]
    /\ sleeps.flood + (IF pc = "flood_sleep" THEN 1 ELSE 0)
          = ledger.first["FloodWait"]
    /\ Cardinality(Retries) + (IF pc = "retry" THEN 1 ELSE 0) = sleeps.flood
    \* the waits taken are the waits demanded
    /\ sleeps.flood_total + (IF pc = "flood_sleep" THEN flood_value ELSE 0)
          = ledger.demanded

\* A finished run in which the retry of the rate-limited recipient was rate
\* limited again: one wait of the demanded length, two attempts, counted
\* failed.
C16_Witness ==
    /\ pc = "done"
    /\ ledger.first["FloodWait"] = 1
    /\ ledger.retry["FloodWait"] = 1
    /\ sleeps.flood = 1
    /\ sleeps.flood_total = ledger.demanded
    /\ ledger.demanded > 0
    /\ Len(attempts) = Len(user_ids) + 1
    /\ Len(user_ids) > 1
    /\ result.failed = 1

(***************************************************************************)
(* C17: for every payload variant (text, photo, video, document,           *)
(* animation) the retry made after a rate-limit wait sends the same        *)
(* variant with the same media reference and caption as the first attempt. *)
(* The code does otherwise: the retry is always                            *)
(* send_message(user_id, message.text or "Message").                       *)
(***************************************************************************)
C17_RetrySendsSamePayload ==
    \A i \in Retries :
       /\ attempts[i].method = attempts[i - 1].method
       /\ attempts[i].content = attempts[i - 1].content

(***************************************************************************)
(* C18: a first attempt that fails with an error that is neither           *)
(* Unreachable/deactivated nor RateLimited increments failed by exactly    *)
(* one, leaves success and blocked unchanged, and is followed by no wait   *)
(* and no retry for that recipient: the loop moves on to the next          *)
(* recipient.                                                              *)
(***************************************************************************)
C18_OtherErrorStep ==
    (pc = "send" /\ ledger'.first["Error"] = ledger.first["Error"] + 1) =>
       /\ stats' = [stats EXCEPT !.failed = @ + 1]
       /\ Len(attempts') = Len(attempts) + 1
       /\ UNCHANGED << sleeps, clock, flood_value >>
       /\ user_id \notin ledger'.flooded
       /\ \/ pc' = "send" /\ batch_num' = batch_num /\ idx' = idx + 1
          \/ pc' = "update_db" /\ idx = Len(batch)

C18_FailedAccounting ==
    /\ stats.failed = ledger.first["Error"] + RetryFailures
    /\ \A i \in Retries : attempts[i].user \in ledger.flooded

C18_OtherErrorCountsFailedNoRetry ==
    /\ [][C18_OtherErrorStep]_vars
    /\ [] C18_FailedAccounting

\* A finished run in which two first attempts failed with other errors:
\* failed is two, nothing else counted, no wait and no retry.
C18_Witness ==
    /\ pc = "done"
    /\ ledger.first["Error"] = 2
    /\ result.failed = 2
    /\ result.success = 0
    /\ result.blocked = 0
    /\ Len(attempts) = 2
    /\ sleeps.flood = 0

(***************************************************************************)
(* C19: after the record update of every batch, and before the first       *)
(* delivery of the next batch, the BroadcastRecord's success, failed and   *)
(* blocked counters equal the job's in-memory counters.  The code does     *)
(* otherwise: line 112 passes only success = len(batch), so the record     *)
(* counts every recipient of the batch as a success and never counts a     *)
(* failed or blocked one.  Stated for runs in which no repository call     *)
(* failed.                                                                 *)
(***************************************************************************)
C19_RecordEqualsCounters ==
    (pc \in {"progress", "delay"} /\ record.exists /\ db_failures = 0) =>
        /\ record.success = stats.success
        /\ record.failed = stats.failed
        /\ record.blocked = stats.blocked

(***************************************************************************)
(* C20: when create_broadcast succeeds, the BroadcastRecord is created     *)
(* with status in_progress and zero counters before the first delivery     *)
(* attempt and keeps status in_progress while any batch remains; it is set *)
(* to completed at most once, after the last batch's record update, and    *)
(* never returns to in_progress; when no repository call fails it is       *)
(* completed when the job returns, also for an empty recipient list.  A    *)
(* failed create_broadcast leaves no record and a failed                   *)
(* complete_broadcast leaves the record in_progress.                       *)
(***************************************************************************)

\* The statement without the provisos: the job returns with a completed
\* record.
C20_Original == pc = "done" => record.status = "completed"

C20_RecordStep ==
    /\ (record'.exists /\ ~ record.exists) =>
          /\ pc = "create"
          /\ attempts = << >>
          /\ record' = [exists      |-> TRUE,
                        total_users |-> Len(user_ids),
                        success     |-> 0,
                        failed      |-> 0,
                        blocked     |-> 0,
                        status      |-> "in_progress"]
    /\ (record'.status = "completed" /\ record.status # "completed") =>
          /\ pc = "complete"
          /\ pc' = "done"
          /\ record.status = "in_progress"
          /\ batch_num = Len(batches)
          /\ Counted(stats) = Len(user_ids)
    /\ record.status = "completed" => record' = record

C20_RecordStatus ==
    /\ (attempts # << >> /\ broadcast_id # "") => record.exists
    /\ (record.exists /\ pc # "done") => record.status = "in_progress"
    /\ record.exists <=> (broadcast_id # "")
    /\ (pc = "done" /\ db_failures = 0) =>
          record.exists /\ record.status = "completed"

C20_RecordLifecycle ==
    /\ [][C20_RecordStep]_vars
    /\ [] C20_RecordStatus

\* A finished run of three recipients with a completed record that was
\* updated for each batch.
C20_Witness ==
    /\ pc = "done"
    /\ record.status = "completed"
    /\ record.total_users = 3
    /\ record.success = 3
    /\ Len(attempts) = 3

(***************************************************************************)
(* C21: when a status message is supplied, an edit of it is attempted      *)
(* after batch k if and only if k is a positive multiple of 5 (batches     *)
(* numbered from 1), and at most once per batch; a job of fewer than 5     *)
(* batches attempts no progress edit, and a job without a status message   *)
(* attempts none at all.                                                   *)
(***************************************************************************)

\* The batch k is past the point of its progress edit.
PastProgress(k) ==
    \/ k < batch_num
    \/ k = batch_num /\ pc \in {"delay", "complete", "done"}

\* The progress edits attempted after the batch k.
ProgressEditsOf(k) ==
    {i \in 1 .. Len(edit_log) :
        edit_log[i].text = "broadcast_progress" /\ edit_log[i].batch = k}

C21_ProgressEveryFifthBatch ==
    /\ \A i \in 1 .. Len(edit_log) :
          /\ edit_log[i].batch \in 1 .. Len(batches)
          /\ i > 1 => edit_log[i - 1].batch < edit_log[i].batch
    /\ \A k \in 1 .. Len(repo_users) :
          Cardinality(ProgressEditsOf(k))
             = IF progress_msg /\ PastProgress(k) /\ k % 5 = 0 THEN 1 ELSE 0
    /\ Len(batches) < 5 => edit_log = << >>
    /\ ~ progress_msg => edit_log = << >>

\* A finished run of ten batches: an edit was attempted after the fifth and
\* after the tenth batch and after no other, and one of the two failed.
C21_Witness ==
    /\ pc = "done"
    /\ Len(batches) = 10
    /\ Len(edit_log) = 2
    /\ edit_log[1].batch = 5
    /\ edit_log[2].batch = 10
    /\ ~ edit_log[1].ok
    /\ edit_log[2].ok

(***************************************************************************)
(* C22: between the last delivery attempt of batch k and the first         *)
(* delivery attempt of batch k+1 exactly one inter-batch delay is taken,   *)
(* and no inter-batch delay is taken between the delivery attempts of two  *)
(* recipients of the same batch: every attempt of batch k is made after    *)
(* exactly k - 1 delays.                                                   *)
(***************************************************************************)
C22_DelayStep ==
    /\ attempts' # attempts =>
          /\ sleeps.delay = batch_num - 1
          /\ sleeps'.delay = sleeps.delay
          /\ attempts'[Len(attempts')].user = batch[idx]
    /\ sleeps'.delay # sleeps.delay =>
          /\ pc = "delay"
          /\ sleeps'.delay = sleeps.delay + 1
          /\ attempts' = attempts
          /\ idx = Len(batch)
          /\ pc' = "send" => batch_num' = batch_num + 1 /\ idx' = 1

C22_DelaysCountBatches ==
    sleeps.delay = IF pc \in {"send", "flood_sleep", "retry", "update_db",
                              "progress", "delay"}
                     THEN batch_num - 1
                     ELSE batch_num

C22_OneDelayBetweenBatches ==
    /\ [][C22_DelayStep]_vars
    /\ [] C22_DelaysCountBatches

\* The third batch of a run in batches of two is being delivered: four
\* recipients attempted, two delays taken.
C22_Witness ==
    /\ batch_size = 2
    /\ batch_num = 3
    /\ pc = "update_db"
    /\ Len(attempts) >= 5
    /\ sleeps.delay = 2

(***************************************************************************)
(* C23: for a payload with no recognized variant (none of text, photo,     *)
(* video, document, animation) no transport send is attempted for any      *)
(* recipient and no recipient is counted as a success: success stays 0 for *)
(* the whole run.  The code does otherwise: line 94 is reached when no     *)
(* branch of the if/elif chain matched, and counts a success for every     *)
(* recipient.                                                              *)
(***************************************************************************)
C23_UnrecognizedCountsNothing ==
    ~ Recognized(message) =>
        /\ attempts = << >>
        /\ stats.success = 0

(***************************************************************************)
(* C24: within one job, first delivery attempts occur in the order of the  *)
(* recipient snapshot, and no attempt for a later recipient begins before  *)
(* the earlier recipient's outcome has been counted, including its         *)
(* rate-limit wait and retry: at any moment at most one recipient is       *)
(* between its first attempt and its count.                                *)
(***************************************************************************)

\* The first attempts made so far, in call order.
FirstAttempts == SelectSeq(attempts, LAMBDA a : a.kind = "first")

C24_StrictlySequential ==
    Recognized(message) =>
        /\ Len(FirstAttempts) <= Len(user_ids)
        /\ \A i \in 1 .. Len(FirstAttempts) :
              FirstAttempts[i].user = user_ids[i]
        \* the recipients attempted and not yet counted
        /\ Len(FirstAttempts) - Counted(stats)
              = IF pc \in {"flood_sleep", "retry"} THEN 1 ELSE 0
        /\ pc \in {"flood_sleep", "retry"} =>
              /\ user_id = user_ids[Len(FirstAttempts)]
              /\ attempts[Len(attempts)].user = user_id

\* The second batch of two is under way with the third recipient waiting
\* out a rate limit: two recipients counted, three attempted in order.
C24_Witness ==
    /\ pc = "flood_sleep"
    /\ batch_size = 2
    /\ Len(user_ids) >= 4
    /\ Counted(stats) = 2
    /\ Len(FirstAttempts) = 3
    /\ user_id = 3

C27_BarIsFloor ==
    rendering.called =>
        LET current == rendering.current
            total   == rendering.total
            length  == rendering.length
            bar     == rendering.bar
        IN  /\ bar.filled + bar.empty = length
            /\ total > 0 =>
                  /\ bar.filled = (current * length) \div total
                  /\ bar.percent = (100 * current) \div total
            /\ total = 0 => bar.filled = 0 /\ bar.percent = 0

(***************************************************************************)
(* C25: the recipient sequence and total are fixed by the snapshot read at *)
(* job start: users added to or removed from the users collection while    *)
(* the job runs change neither total nor the set of recipients attempted,  *)
(* which is exactly the snapshot for a payload with a recognized variant.  *)
(***************************************************************************)

\* The members of a sequence.
Members(seq) == {seq[i] : i \in 1 .. Len(seq)}

C25_SnapshotStep ==
    /\ user_ids' # user_ids => pc = "get_users" /\ user_ids' = repo_users
    /\ stats'.total # stats.total => pc = "create"
    /\ repo_users' # repo_users =>
          UNCHANGED << user_ids, stats, attempts, pc, batch_num, idx >>

C25_SnapshotFixed ==
    /\ pc \notin {"get_users", "create"} => stats.total = Len(user_ids)
    /\ \A i \in 1 .. Len(attempts) : attempts[i].user \in Members(user_ids)
    /\ (pc = "done" /\ Recognized(message)) =>
          /\ result.total = Len(user_ids)
          /\ {attempts[i].user : i \in 1 .. Len(attempts)}
                = Members(user_ids)
          /\ Counted(result) = Len(user_ids)

C25_SnapshotFixesRecipients ==
    /\ [][C25_SnapshotStep]_vars
    /\ [] C25_SnapshotFixed

\* A finished run over the snapshot << 1 >>, during which user 1 left the
\* collection and user 2 joined it: user 1 alone was attempted.
C25_Witness ==
    /\ pc = "done"
    /\ user_ids = << 1 >>
    /\ repo_users = << 2 >>
    /\ result.total = 1
    /\ Len(attempts) = 1
    /\ attempts[1].user = 1

(***************************************************************************)
(* C28: at most one broadcast job is active at any time: a confirm press   *)
(* that arrives while a job is suspended at a delivery call, a rate-limit  *)
(* wait or an inter-batch delay does not start a second job.               *)
(***************************************************************************)

\* Positions at which the job is suspended inside the delivery loop.
SuspendedInLoop == {"send", "flood_sleep", "retry", "delay"}

\* Calls of broadcast_message that have not returned or raised.
ActiveJobs ==
    (IF pc \in {"idle", "done", "returned", "raised"} THEN 0 ELSE 1)
        + Cardinality({u \in Users : cb[u].at = "other_job"})

C28_NoStartWhileSuspended ==
    pc \in SuspendedInLoop => job_starts' = job_starts

C28_AtMostOneActiveJob ==
    [](ActiveJobs <= 1) /\ [][C28_NoStartWhileSuspended]_vars

(***************************************************************************)
(* C30: if every transport call, repository call, rate-limit wait and      *)
(* inter-batch delay returns in finite time, every job over a finite       *)
(* recipient list eventually returns its report, and the record completion *)
(* call has been issued before it returns.                                 *)
(***************************************************************************)

\* The job returns only from the step that calls complete_broadcast, which
\* marks the record, fails inside the repository, or is given the handle
\* of a failed create.
C30_CompletionIssued ==
    pc' = "done" /\ pc # "done" =>
        /\ pc = "complete"
        /\ \/ record' = CompletedRecord
           \/ db_failures' = db_failures + 1
           \/ broadcast_id = ""

C30_JobTerminates ==
    /\ <>(pc = "done" /\ result.total = Len(user_ids))
    /\ [][C30_CompletionIssued]_vars

\* A run with a rate-limit wait, a failed retry and a delay has returned.
C30_Witness ==
    /\ pc = "done"
    /\ Len(user_ids) = MaxFairUsers
    /\ sleeps.flood = 1
    /\ ledger.retry["Error"] = 1
    /\ sleeps.delay >= 2

(***************************************************************************)
(* C29: when two broadcast jobs run interleaved at their suspension        *)
(* points, no increment is lost: each job's record ends with counters      *)
(* equal to the sum of the increments that job issued, and each job's      *)
(* returned report counts only that job's own recipients.                  *)
(***************************************************************************)

\* The counters of the document the call j created.
RecordCounters(j) ==
    LET doc == broadcasts[jobs[j].broadcast_id]
    IN  [success |-> doc.success, failed |-> doc.failed,
         blocked |-> doc.blocked]

C29_NoLostIncrement ==
    \A j \in JobIds :
        /\ jobs[j].broadcast_id # 0 =>
              RecordCounters(j) = jobs[j].issued
        /\ jobs[j].pc = "done" =>
              /\ jobs[j].result.total = Len(jobs[j].user_ids)
              /\ Counted(jobs[j].result) = jobs[j].handled
              /\ jobs[j].handled = Len(jobs[j].user_ids)

\* Both jobs are inside their loops with increments applied to their own
\* documents: the first over one recipient, the second over two.
C29_Witness ==
    /\ jobs[1].pc = "delay"
    /\ jobs[2].pc = "send"
    /\ Len(jobs[1].user_ids) = 1
    /\ Len(jobs[2].user_ids) = 2
    /\ jobs[1].broadcast_id # 0
    /\ jobs[2].broadcast_id # 0
    /\ jobs[1].broadcast_id # jobs[2].broadcast_id
    /\ jobs[1].issued.success = 1
    /\ jobs[2].issued.success = 1

(***************************************************************************)
(* C31: at every point of a run, success + failed + blocked equals the     *)
(* number of recipients whose processing has finished: each recipient      *)
(* increments exactly one of the three counters exactly once, and nothing  *)
(* else changes them.                                                      *)
(***************************************************************************)

\* Recipients the loops have left behind: those before the current one
\* while it is being delivered, and the current one too once the inner
\* loop has left the batch.
Finished ==
    CASE pc \in {"get_users", "create"}           -> 0
      [] pc \in {"send", "flood_sleep", "retry"}  -> Position - 1
      [] pc \in {"update_db", "progress", "delay"} -> Position
      [] OTHER                                    -> Len(user_ids)

C31_CountStep ==
    /\ C2_CountersMonotone
    /\ Counted(stats') - Counted(stats) \in {0, 1}
    /\ Counted(stats') = Counted(stats) + 1 =>
          /\ pc \in {"send", "retry"}
          /\ pc' \in {"send", "update_db"}

C31_CountedIsFinished ==
    /\ [](Counted(stats) = Finished)
    /\ [][C31_CountStep]_vars

\* Mid-batch: the second recipient of the second batch is waiting for its
\* retry, three recipients are finished, one in each counter.
C31_Witness ==
    /\ pc = "retry"
    /\ batch_size = 2
    /\ batch_num = 2
    /\ idx = 2
    /\ stats.success = 1
    /\ stats.failed = 1
    /\ stats.blocked = 1

(***************************************************************************)
(* C32: when the retry after a rate-limit wait fails for any reason,       *)
(* including Unreachable/deactivated or a second RateLimited, the          *)
(* recipient is counted as failed and never as blocked.                    *)
(***************************************************************************)
C32_RetryStep ==
    \A o \in Outcomes \ {"ok"} :
        ledger'.retry[o] = ledger.retry[o] + 1 =>
            /\ pc = "retry"
            /\ stats'.failed = stats.failed + 1
            /\ stats'.blocked = stats.blocked
            /\ stats'.success = stats.success
            /\ sleeps' = sleeps
            /\ pc' \in {"send", "update_db"}

C32_FailedRetryCountsFailed ==
    /\ [][C32_RetryStep]_vars
    /\ [](RetryFailures <= stats.failed
            /\ stats.blocked = ledger.first["Unreachable"])

\* The retry met a recipient who had blocked the bot in the meantime.
C32_Witness ==
    /\ pc = "done"
    /\ ledger.retry["Unreachable"] = 1
    /\ result.failed = 1
    /\ result.blocked = 0

(***************************************************************************)
(* C33: the inter-batch delay is taken once after every batch, the last    *)
(* one included: a job of k batches takes exactly k inter-batch delays     *)
(* before it marks the record completed and returns.                       *)
(***************************************************************************)
C33_CompleteStep ==
    (pc # "complete" /\ pc' = "complete") =>
        /\ sleeps'.delay = Len(batches)
        /\ Len(batches) > 0 => pc = "delay" /\ batch_num = Len(batches)

C33_DelayAfterEveryBatch ==
    /\ [][C33_CompleteStep]_vars
    /\ [](pc \in {"complete", "done"} \/ record.status = "completed" =>
             /\ sleeps.delay = Len(batches)
             /\ clock - start_time >= Len(batches) * BROADCAST_DELAY)

\* A run of three batches has returned after three delays.
C33_Witness ==
    /\ pc = "done"
    /\ Len(batches) = 3
    /\ sleeps.delay = 3
    /\ record.status = "completed"

(***************************************************************************)
(* C34: whenever broadcast_callback finishes handling a confirm press that *)
(* started a job, or a cancel press, the pressing admin's session is Idle  *)
(* (its admin_states entry is removed), including when the edit of the     *)
(* status message with the final summary or with the cancellation text     *)
(* fails.                                                                  *)
(***************************************************************************)

\* Positions of broadcast_callback from which the next step is the last
\* edit of the status message.
BeforeLastEdit == {"job", "other_job", "cancel_edit"}

C34_LastEditStep ==
    \A u \in ADMIN_IDS :
        (cb[u].at \in BeforeLastEdit /\ cb'[u].at \notin BeforeLastEdit) =>
            admin_states'[u] = NoSession

C34_SessionIdleAfterCallback == [][C34_LastEditStep]_vars

(***************************************************************************)
(* C35: the completion of a broadcast job clears only the session that     *)
(* started it: if the admin issues /broadcast while their job is still     *)
(* running, the admin is in AwaitingContent after the job completes and    *)
(* their next content message is taken as broadcast content.               *)
(***************************************************************************)
C35_CompletionStep ==
    \A u \in ADMIN_IDS :
        (/\ cb[u].at \in {"job", "other_job"}
         /\ cb'[u].at \notin {"job", "other_job"}
         /\ admin_states[u].state = "awaiting_broadcast") =>
            admin_states'[u] = admin_states[u]

C35_CompletionKeepsNewSession == [][C35_CompletionStep]_vars

(***************************************************************************)
(* C36: a non-command message of an admin changes the session only in      *)
(* AwaitingContent, where it is stored as the payload and the session      *)
(* moves to AwaitingConfirmation; in Idle and in AwaitingConfirmation it   *)
(* leaves the session state and any stored payload unchanged, so the       *)
(* payload broadcast on confirm is the first message sent after            *)
(* /broadcast.                                                             *)
(***************************************************************************)

\* The session /broadcast leaves.
Awaiting == [state |-> "awaiting_broadcast", message |-> "none"]

\* What a step may do to the session of the admin a: from Idle only
\* /broadcast changes it; a payload is stored only from AwaitingContent; a
\* stored payload is never replaced, only dropped by /broadcast or by the
\* end of a callback.
C36_SessionStep(a) ==
    LET old == admin_states[a]
        new == admin_states'[a]
    IN  /\ old.state = "none" => new \in {old, Awaiting}
        /\ old.state = "awaiting_broadcast" =>
              \/ new \in {old, NoSession}
              \/ new.state = "confirm_broadcast" /\ new.message # "none"
        /\ old.state = "confirm_broadcast" =>
              new \in {old, Awaiting, NoSession}

\* The payload a confirm press reads is the stored one, and the job is
\* called with the payload the press read.
C36_ConfirmStep ==
    /\ \A a \in ADMIN_IDS :
          (cb[a].at # "started_edit" /\ cb'[a].at = "started_edit") =>
              /\ admin_states[a].state = "confirm_broadcast"
              /\ cb'[a].broadcast_msg = admin_states[a].message
    /\ job_starts' # job_starts =>
          LET start == job_starts'[Len(job_starts')]
          IN  /\ cb[start.admin].at = "started_edit"
              /\ start.message = cb[start.admin].broadcast_msg

C36_OnlyFirstMessageStored ==
    [][C36_ConfirmStep /\ \A a \in ADMIN_IDS : C36_SessionStep(a)]_vars

\* The job of a text payload is running and the admin, who has issued
\* /broadcast again, has a photo stored for the next one.
C36_Witness ==
    /\ job_starts = << [admin |-> "admin1", message |-> "text"] >>
    /\ message = "text"
    /\ pc = "send"
    /\ cb["admin1"].at = "job"
    /\ admin_states["admin1"] =
          [state |-> "confirm_broadcast", message |-> "photo"]

(***************************************************************************)
(* C37: a broadcast confirm or cancel callback from a user who is not in   *)
(* ADMIN_IDS starts no job, sends nothing to any recipient and leaves      *)
(* every admin's session unchanged.                                        *)
(***************************************************************************)
C37_PressStep ==
    \A u \in Users \ ADMIN_IDS :
        cb'[u] # cb[u] =>
            /\ cb' = [cb EXCEPT ![u].at = "not_admin"]
            /\ UNCHANGED << admin_states, job_starts, job_entry,
                            job_internal >>

C37_NoCoroutine ==
    /\ \A u \in Users \ ADMIN_IDS : cb[u].at \in {"none", "not_admin"}
    /\ \A k \in 1 .. Len(job_starts) : job_starts[k].admin \in ADMIN_IDS

C37_NonAdminPressDoesNothing ==
    /\ [][C37_PressStep]_vars
    /\ [] C37_NoCoroutine

\* A user outside ADMIN_IDS has pressed a button while an admin's payload
\* was waiting for its confirmation; no job has been called.
C37_Witness ==
    /\ cb["user"].at = "not_admin"
    /\ admin_states["admin1"].state = "confirm_broadcast"
    /\ job_starts = << >>
    /\ attempts = << >>
    /\ pc = "idle"

====
